---- MODULE Spec2Model ----
(***************************************************************************)
(* The per-site simulation engine of the PV dashboard server               *)
(* (src/src/server/src/index.ts): the simulators registry, the start and   *)
(* stop routes, the shutdown handler, the setInterval tick callback with   *)
(* its persistence calls, and the WebSocket fan-out; the physics model of  *)
(* the sample generator, the seed and clear routes, and the handlers of    *)
(* the dashboard (src/src/client/src/Dashboard.tsx) that call the server.  *)
(*                                                                         *)
(* The server runs on one event loop: a handler runs without interruption  *)
(* from one await to the next, so every action below is one such segment   *)
(* of a handler (or a whole synchronous handler).                          *)
(***************************************************************************)
EXTENDS Integers, Sequences, FiniteSets, TLC

\* ---------------------------------------------------------------- bounds
MaxStarts == 2      \* start requests received in one run
MaxTicks == 2       \* timer callbacks begun in one run
MaxClock == 2       \* last value of the millisecond clock
MaxInterval == 1    \* largest intervalMs a start request carries
MaxSeeds == 2       \* seed requests received in one run
MaxPoints == 3      \* largest explicit points of a seed request
MaxClears == 1      \* clear requests received in one run
MaxReads == 2       \* telemetry requests received in one run

\* ------------------------------------------------------------- constants
SiteIds == {1, 2}           \* the site ids requests name
NaN == 0                    \* Number(req.params.id) of a non-numeric id
NoTimer == 0                \* simulators.get(siteId) === undefined
Clients == {1, 2}           \* WebSocket subscribers, in the order of wss.clients
Signals == {"SIGINT", "SIGTERM"}
Intervals == 1..MaxInterval
NoSample == [made |-> FALSE]
DefaultPoints == 24         \* req.body.points ?? 24
NoCount == 0 - 1            \* a response body without a count
OddPoints == 7              \* a points value that does not divide the day
SeedPoints == 0..MaxPoints \cup {OddPoints, DefaultPoints}
SITE_ID == 1                \* the site of the dashboard
INTERVAL_MS == 1            \* the interval the dashboard asks for, in clock units

\* ------------------------------------------------------ the physics model
\* Numbers are fixed-point integers: powers in 1e-5 kW, irradiance in 1e-3 W/m2,
\* temperatures in 1e-3 degrees C, factors in 1e-4; timestamps are milliseconds
\* since the start of the current day (local time).

MsPerHour == 3600000
MsPerDay == 24 * MsPerHour
Null == 0 - 1               \* site.capacity_kw is null
DefaultCapKw == 100000      \* 1.0 kW
Sunrise == 6
Sunset == 18
GMax == 900
NOCT == 45

\* the capacities a site row can hold: null, 0, 0.1 kW, 1 kW, 5 kW
Capacities == {Null, 0, 10000, 100000, 500000}
\* the values of Math.random(), in 1e-5
Randoms == {0, 50000, 99999}
\* the arguments computeACPowerKw is applied to: capacities of 0 to 5 kW,
\* irradiances of 0 to 1200 W/m2, module temperatures of -10 to 300 degrees
PowerCapacities == {0, 10000, 100000, 500000}
Irradiances == {g * 200000 : g \in 0..6}
ModuleTemps == {0 - 10000, 25000, 58125, 300000}
\* the times of day a sample is generated for: every half hour
SampleTimes == {h * MsPerHour + m * 60000 : h \in 0..23, m \in {0, 30}}

\* 10^4 * sin(k * 7.5 degrees), k = 0..12
SinTable == <<1305, 2588, 3827, 5000, 6088, 7071, 7934, 8660, 9239, 9659,
              9914, 10000>>

\* 10^4 * Math.sin of an angle of k * 7.5 degrees (k * pi / 24)
Sin(k) ==
    LET m == k % 48
        q(j) == IF j = 0 THEN 0 ELSE SinTable[j]
    IN IF m <= 12 THEN q(m)
       ELSE IF m <= 24 THEN q(24 - m)
       ELSE IF m <= 36 THEN 0 - q(m - 24)
       ELSE 0 - q(48 - m)

Max(a, b) == IF a >= b THEN a ELSE b
Min(a, b) == IF a <= b THEN a ELSE b

\* timestamp.getHours(), timestamp.getMinutes()
GetHours(ts) == (ts % MsPerDay) \div MsPerHour
GetMinutes(ts) == (ts % MsPerHour) \div 60000

\* mutant: the day length is taken to be the hour of sunset
irradianceAtHour_WrongDayLen(hour2) ==
    IF hour2 < 2 * Sunrise \/ hour2 > 2 * Sunset
    THEN 0
    ELSE Max(0, (GMax * Sin((24 * (hour2 - 2 * Sunrise)) \div (2 * Sunset))) \div 10)

\* irradianceAtHour(hour), hour in half hours
irradianceAtHour(hour2) ==
    IF hour2 < 2 * Sunrise \/ hour2 > 2 * Sunset
    THEN 0
    ELSE Max(0, (GMax * Sin((24 * (hour2 - 2 * Sunrise)) \div (2 * (Sunset - Sunrise))))
                    \div 10)

\* moduleTemp(ambient, irradiance)
moduleTemp(ambient, irradiance) ==
    ambient + ((NOCT - 20) * irradiance) \div 800

\* mutant: the result is not clipped to the capacity
computeACPowerKw_NoClip(capacityKw, irradiance, moduleTempC) ==
    LET gFactor == irradiance \div 1000
        tempFactor == 10000 - (4 * (moduleTempC - 25000)) \div 100
        derated == (((capacityKw * gFactor) \div 1000) * 95) \div 100
        p_dc_kw == ((derated \div 10) * tempFactor) \div 1000
    IN Max(0, (p_dc_kw * 98) \div 100)

\* computeACPowerKw(capacityKw, irradiance, -0.004, moduleTempC, 0.95)
computeACPowerKw(capacityKw, irradiance, moduleTempC) ==
    LET gFactor == irradiance \div 1000
        tempFactor == 10000 - (4 * (moduleTempC - 25000)) \div 100
        derated == (((capacityKw * gFactor) \div 1000) * 95) \div 100
        p_dc_kw == ((derated \div 10) * tempFactor) \div 1000
        p_ac_kw == Max(0, (p_dc_kw * 98) \div 100)
    IN Min(p_ac_kw, capacityKw)

\* mutant: the default capacity is used for every site
CapKw_Default(capacity_kw) ==
    DefaultCapKw

\* site.capacity_kw ? Number(...) : 1.0 (a Decimal is an object: 0 is kept)
CapKw(capacity_kw) ==
    IF capacity_kw = Null THEN DefaultCapKw ELSE capacity_kw

\* computeSitePhysics(site, timestamp), rnd being the value of Math.random()
computeSitePhysics(capacity_kw, timestamp, rnd) ==
    LET capKw == CapKw(capacity_kw)
        hour2 == 2 * (GetHours(timestamp) % 24) + GetMinutes(timestamp) \div 30
        irradiance == irradianceAtHour(hour2)
        ambient == 20000 + Sin(hour2 + 36)
        moduleTempC == moduleTemp(ambient, irradiance)
        powerKw == computeACPowerKw(capKw, irradiance, moduleTempC)
        noisyPowerKw == Max(0, powerKw + (2 * rnd) \div 10)
    IN [hour2 |-> hour2, irradiance |-> irradiance, ambient |-> ambient,
        moduleTempC |-> moduleTempC, powerKw |-> noisyPowerKw]

\* +v.toFixed(4) of a power
ToFixed4(v) ==
    ((v + 5) \div 10) * 10

\* +v.toFixed(2) of an irradiance or a temperature (v >= 0)
ToFixed2(v) ==
    ((v + 5) \div 10) * 10

VARIABLES
    simulators,     \* the registry: siteId -> timer id, NoTimer when absent
    timers,         \* every setInterval ever installed: [site, live, interval, due]
    shuttingDown,   \* the flag of shutdown()
    sigListeners,   \* the signals that still have their process.once listener
    listening,      \* the HTTP server accepts requests (until server.close())
    wssOpen,        \* the WebSocket server accepts connections (until wss.close())
    exited,         \* the process has ended
    starts,         \* the start requests received: [site, interval, pc, resp, timer, ...]
    ticks,          \* the timer callbacks begun: [timer, site, pc, now, dev, t0]
    clock,          \* Date.now(), in milliseconds
    sites,          \* the site table: the ids that exist
    devices,        \* the device table: row i is the device sim-site-{devices[i]}
    weather,        \* the weather_data rows, in insertion order: [site, ts]
    telemetry,      \* the telemetry rows, in insertion order: [dev, ts]
    clientState,    \* each subscriber: "absent", "open" (readyState 1) or "closing"
    delivered,      \* the messages each subscriber was sent: [site, ts]
    \* history, read by the properties only
    signals,        \* the termination signals delivered, in order
    sweeps,         \* how many times the shutdown sweep ran
    lastStop,       \* the latest stop response: [n, site, resp], n flips per request
    lastCtl,        \* per site, the latest successful control operation
    tickFailed,     \* per site, a tick has failed
    tickLate,       \* per site, a tick took intervalMs or longer
    \* the sample generator, the seed and clear routes, the dashboard
    sample,         \* the latest result of computeSitePhysics, with its inputs
    seeds,          \* the seed requests received: [site, points, pc, i, ...]
    clears,         \* the clear requests received: [site, pc, dev, resp]
    reads,          \* the telemetry requests received: [site, limit, pc, dev, rows]
    dash            \* the dashboard: [mount, op, isSimulating, isLoading, ...]

regVars == <<simulators, timers>>
procVars == <<shuttingDown, sigListeners, listening, wssOpen, exited>>
dbVars == <<sites, devices, weather, telemetry>>
wsVars == <<clientState, delivered>>
histVars == <<signals, sweeps, lastStop, lastCtl, tickFailed, tickLate>>
srvVars == <<sample, seeds, clears, reads>>
extVars == <<sample, seeds, clears, reads, dash>>
vars == <<simulators, timers, shuttingDown, sigListeners, listening, wssOpen,
          exited, starts, ticks, clock, sites, devices, weather, telemetry,
          clientState, delivered, signals, sweeps, lastStop, lastCtl,
          tickFailed, tickLate, sample, seeds, clears, reads, dash>>

\* ------------------------------------------------------------- registry

\* mutant: the registry check is missing
HasSimulator_Never(id) ==
    FALSE

\* simulators.has(siteId); a NaN key is never set
HasSimulator(id) ==
    id \in SiteIds /\ simulators[id] # NoTimer

\* the timers that are installed and not cleared
LiveTimers ==
    {t \in 1..Len(timers) : timers[t].live}

\* mutant: clearing one timer clears every timer
ClearInterval_All(tms, t) ==
    [i \in 1..Len(tms) |-> [tms[i] EXCEPT !.live = FALSE]]

\* clearInterval(timer)
ClearInterval(tms, t) ==
    [tms EXCEPT ![t].live = FALSE]

\* clearInterval(sim.timer) for every entry of the registry
ClearAllRegistered(tms) ==
    [t \in 1..Len(tms) |->
        IF \E s \in SiteIds : simulators[s] = t
        THEN [tms[t] EXCEPT !.live = FALSE]
        ELSE tms[t]]

\* simulators.clear()
EmptyRegistry ==
    [s \in SiteIds |-> NoTimer]

Init ==
    /\ simulators = EmptyRegistry
    /\ timers = <<>>
    /\ shuttingDown = FALSE
    /\ sigListeners = Signals
    /\ listening = TRUE
    /\ wssOpen = TRUE
    /\ exited = FALSE
    /\ starts = <<>>
    /\ ticks = <<>>
    /\ clock = 0
    /\ sites \in SUBSET SiteIds
    /\ devices = <<>>
    /\ weather = <<>>
    /\ telemetry = <<>>
    /\ clientState \in [Clients -> {"absent", "open"}]
    /\ delivered = [c \in Clients |-> <<>>]
    /\ signals = <<>>
    /\ sweeps = 0
    /\ lastStop = [n |-> 0, site |-> NaN, resp |-> "none"]
    /\ lastCtl = [s \in SiteIds |-> "none"]
    /\ tickFailed = [s \in SiteIds |-> FALSE]
    /\ tickLate = [s \in SiteIds |-> FALSE]
    /\ sample = NoSample
    /\ seeds = <<>>
    /\ clears = <<>>
    /\ reads = <<>>
    /\ dash = [mount |-> "none", statusResp |-> "none", op |-> "idle",
               isSimulating |-> FALSE, isLoading |-> FALSE,
               req |-> 0, resp |-> "none", done |-> <<>>,
               fh |-> [pc |-> "none", seedIfEmpty |-> FALSE, depth |-> 0,
                       gets |-> 0, posts |-> 0, req |-> 0, shown |-> 0]]

\* ---------------------------------------------------------- start route

\* the start requests for site id that are suspended at the site lookup
PendingStarts(id) ==
    {i \in 1..Len(starts) : starts[i].site = id /\ starts[i].pc = "lookup"}

\* mutant: the route does not test the answer of the lookup
SiteFound_Always(s) ==
    TRUE

\* the answer of prisma.site.findUnique: the row exists
SiteFound(s) ==
    s \in sites

\* POST /sites/:id/simulate/start, up to the await of the site lookup
\* (existed and peers record, for the properties, whether the site existed
\* and which other requests for it were suspended when this one arrived)
StartRoute(id, ms) ==
    /\ ~exited /\ listening
    /\ Len(starts) < MaxStarts
    /\ starts' = Append(starts,
          [site |-> id, interval |-> ms, timer |-> NoTimer,
           pc |-> IF id = NaN \/ HasSimulator(id) THEN "done" ELSE "lookup",
           resp |-> IF id = NaN THEN "invalid"
                    ELSE IF HasSimulator(id) THEN "already" ELSE "none",
           existed |-> id \in sites,
           peers |-> PendingStarts(id)])
    /\ UNCHANGED <<regVars, procVars, ticks, clock, dbVars, wsVars, histVars>>
    /\ UNCHANGED srvVars

\* a start request of a caller other than the dashboard
StartBegin(id, ms) ==
    StartRoute(id, ms) /\ UNCHANGED dash

\* the rest of the start route, once prisma.site.findUnique has answered
StartResume(i) ==
    /\ ~exited
    /\ i \in 1..Len(starts)
    /\ starts[i].pc = "lookup"
    /\ LET s == starts[i].site
           t == Len(timers) + 1
       IN IF SiteFound(s)
          THEN /\ timers' = Append(timers,
                     [site |-> s, live |-> TRUE, interval |-> starts[i].interval,
                      due |-> clock + starts[i].interval])
               /\ simulators' = [simulators EXCEPT ![s] = t]
               /\ starts' = [starts EXCEPT ![i].pc = "done",
                                           ![i].resp = "started",
                                           ![i].timer = t]
               /\ lastCtl' = [lastCtl EXCEPT ![s] = "started"]
          ELSE /\ starts' = [starts EXCEPT ![i].pc = "done",
                                           ![i].resp = "notfound"]
               /\ UNCHANGED <<regVars, lastCtl>>
    /\ UNCHANGED <<procVars, ticks, clock, dbVars, wsVars,
                   signals, sweeps, lastStop, tickFailed, tickLate>>
    /\ UNCHANGED extVars

\* ----------------------------------------------------------- stop route

\* mutant: the route answers "stopped" without testing the entry
StopResp_AlwaysStopped(id) ==
    "stopped"

\* the answer of the stop route: 404 when simulators.get(siteId) is undefined
StopResp(id) ==
    IF HasSimulator(id) THEN "stopped" ELSE "notrunning"

\* POST /sites/:id/simulate/stop (synchronous)
StopRoute(id) ==
    /\ ~exited /\ listening
    /\ lastStop' = [n |-> 1 - lastStop.n, site |-> id, resp |-> StopResp(id)]
    /\ IF HasSimulator(id)
       THEN /\ timers' = ClearInterval(timers, simulators[id])
            /\ simulators' = [simulators EXCEPT ![id] = NoTimer]
            /\ lastCtl' = [lastCtl EXCEPT ![id] = "stopped"]
       ELSE UNCHANGED <<regVars, lastCtl>>
    /\ UNCHANGED <<procVars, starts, ticks, clock, dbVars, wsVars,
                   signals, sweeps, tickFailed, tickLate>>
    /\ UNCHANGED srvVars

\* a stop request of a caller other than the dashboard
Stop(id) ==
    StopRoute(id) /\ UNCHANGED dash

\* ---------------------------------------------------- shutdown, signals

\* shutdown(): the guard, the sweep over the registry, wss.close(), server.close()
Shutdown ==
    IF shuttingDown
    THEN UNCHANGED <<regVars, shuttingDown, listening, wssOpen, sweeps>>
    ELSE /\ shuttingDown' = TRUE
         /\ timers' = ClearAllRegistered(timers)
         /\ simulators' = EmptyRegistry
         /\ wssOpen' = FALSE
         /\ listening' = FALSE
         /\ sweeps' = sweeps + 1

\* a termination signal whose process.once listener is still registered:
\* the listener is removed and shutdown() runs
SignalHandled(sig) ==
    /\ ~exited
    /\ sig \in sigListeners
    /\ sigListeners' = sigListeners \ {sig}
    /\ signals' = Append(signals, sig)
    /\ Shutdown
    /\ UNCHANGED <<exited, starts, ticks, clock, dbVars, wsVars,
                   lastStop, lastCtl, tickFailed, tickLate>>
    /\ UNCHANGED extVars

\* a termination signal whose once-listener has already been used: no listener
\* is left, so the runtime's default disposition ends the process
SignalDefault(sig) ==
    /\ ~exited
    /\ sig \notin sigListeners
    /\ signals' = Append(signals, sig)
    /\ exited' = TRUE
    /\ UNCHANGED <<regVars, shuttingDown, sigListeners, listening, wssOpen,
                   starts, ticks, clock, dbVars, wsVars,
                   sweeps, lastStop, lastCtl, tickFailed, tickLate>>
    /\ UNCHANGED extVars

\* the callback of server.close(): every connection has ended, the database is
\* disconnected and process.exit(0) runs
ServerClosed ==
    /\ ~exited
    /\ shuttingDown
    /\ \A i \in 1..Len(starts) : starts[i].pc = "done"
    /\ \A c \in Clients : clientState[c] = "absent"
    /\ exited' = TRUE
    /\ UNCHANGED <<regVars, shuttingDown, sigListeners, listening, wssOpen,
                   starts, ticks, clock, dbVars, wsVars, histVars>>
    /\ UNCHANGED extVars

\* ------------------------------------------------------ the tick callback

\* the pcs at which a tick is suspended at a persistence call
AwaitPcs == {"findSite", "findDevice", "createDevice", "weather", "telemetry"}

\* prisma.device.findFirst({name: sim-site-<s>}): the first such row, 0 if none
FindDevice(s) ==
    IF \E d \in 1..Len(devices) : devices[d] = s
    THEN CHOOSE d \in 1..Len(devices) :
            /\ devices[d] = s
            /\ \A e \in 1..(d - 1) : devices[e] # s
    ELSE 0

\* the interval of the timer a tick belongs to
TickInterval(k) ==
    timers[ticks[k].timer].interval

\* mutant: the catch block of a tick stops the simulation
TickEnd_StopsOnError(k, outcome) ==
    /\ ticks' = [ticks EXCEPT ![k] =
          [timer |-> ticks[k].timer, site |-> ticks[k].site, pc |-> outcome,
           now |-> 0, dev |-> 0, t0 |-> 0]]
    /\ tickFailed' = [tickFailed EXCEPT ![ticks[k].site] = @ \/ outcome = "failed"]
    /\ tickLate' = [tickLate EXCEPT ![ticks[k].site] =
                        @ \/ clock >= ticks[k].t0 + timers[ticks[k].timer].interval]
    /\ IF outcome = "failed"
       THEN /\ timers' = [timers EXCEPT ![ticks[k].timer].live = FALSE]
            /\ simulators' = [simulators EXCEPT ![ticks[k].site] = NoTimer]
       ELSE UNCHANGED regVars

\* the end of a tick callback: it returns (outcome "done") or its catch block
\* logs the error (outcome "failed"); neither touches the timer or the registry
TickEnd(k, outcome) ==
    /\ ticks' = [ticks EXCEPT ![k] =
          [timer |-> ticks[k].timer, site |-> ticks[k].site, pc |-> outcome,
           now |-> 0, dev |-> 0, t0 |-> 0]]
    /\ tickFailed' = [tickFailed EXCEPT ![ticks[k].site] = @ \/ outcome = "failed"]
    /\ tickLate' = [tickLate EXCEPT ![ticks[k].site] =
                        @ \/ clock >= ticks[k].t0 + TickInterval(k)]
    /\ UNCHANGED regVars

\* mutant: a firing is skipped while a tick of the timer is in flight
TickBegin_SkipIfBusy(t) ==
    /\ ~exited
    /\ t \in LiveTimers
    /\ Len(ticks) < MaxTicks
    /\ \A k \in 1..Len(ticks) : ticks[k].timer = t => ticks[k].pc \notin AwaitPcs
    /\ LET at == IF clock >= timers[t].due THEN clock ELSE timers[t].due
       IN /\ at <= MaxClock
          /\ clock' = at
          /\ timers' = [timers EXCEPT ![t].due = at + timers[t].interval]
          /\ ticks' = Append(ticks,
                [timer |-> t, site |-> timers[t].site, pc |-> "findSite",
                 now |-> 0, dev |-> 0, t0 |-> at])
    /\ UNCHANGED <<simulators, procVars, starts, dbVars, wsVars, histVars>>
    /\ UNCHANGED extVars

\* mutant: the timer fires once only (setTimeout)
TickBegin_OneShot(t) ==
    /\ ~exited
    /\ t \in LiveTimers
    /\ Len(ticks) < MaxTicks
    /\ LET at == IF clock >= timers[t].due THEN clock ELSE timers[t].due
       IN /\ at <= MaxClock
          /\ clock' = at
          /\ timers' = [timers EXCEPT ![t].due = at + timers[t].interval,
                                      ![t].live = FALSE]
          /\ ticks' = Append(ticks,
                [timer |-> t, site |-> timers[t].site, pc |-> "findSite",
                 now |-> 0, dev |-> 0, t0 |-> at])
    /\ UNCHANGED <<simulators, procVars, starts, dbVars, wsVars, histVars>>
    /\ UNCHANGED extVars

\* the timer fires once its interval has elapsed (the loop idles until then)
\* and the callback runs up to the await of the site lookup
TickBegin(t) ==
    /\ ~exited
    /\ t \in LiveTimers
    /\ Len(ticks) < MaxTicks
    /\ LET at == IF clock >= timers[t].due THEN clock ELSE timers[t].due
       IN /\ at <= MaxClock
          /\ clock' = at
          /\ timers' = [timers EXCEPT ![t].due = at + timers[t].interval]
          /\ ticks' = Append(ticks,
                [timer |-> t, site |-> timers[t].site, pc |-> "findSite",
                 now |-> 0, dev |-> 0, t0 |-> at])
    /\ UNCHANGED <<simulators, procVars, starts, dbVars, wsVars, histVars>>
    /\ UNCHANGED extVars

\* mutant: the tick does not test the answer of the site lookup
TickSiteLookup_NoCheck(k) ==
    /\ ~exited
    /\ k \in 1..Len(ticks)
    /\ ticks[k].pc = "findSite"
    /\ ticks' = [ticks EXCEPT ![k].pc = "findDevice", ![k].now = clock]
    /\ UNCHANGED <<regVars, tickFailed, tickLate>>
    /\ UNCHANGED <<procVars, starts, clock, dbVars, wsVars,
                   signals, sweeps, lastStop, lastCtl>>
    /\ UNCHANGED extVars

\* prisma.site.findUnique answers; new Date(); ensureSiteDevice begins
TickSiteLookup(k) ==
    /\ ~exited
    /\ k \in 1..Len(ticks)
    /\ ticks[k].pc = "findSite"
    /\ IF SiteFound(ticks[k].site)
       THEN /\ ticks' = [ticks EXCEPT ![k].pc = "findDevice", ![k].now = clock]
            /\ UNCHANGED <<regVars, tickFailed, tickLate>>
       ELSE TickEnd(k, "failed")
    /\ UNCHANGED <<procVars, starts, clock, dbVars, wsVars,
                   signals, sweeps, lastStop, lastCtl>>
    /\ UNCHANGED extVars

\* prisma.device.findFirst answers: the device exists or its creation begins
TickDeviceLookup(k) ==
    /\ ~exited
    /\ k \in 1..Len(ticks)
    /\ ticks[k].pc = "findDevice"
    /\ ticks' = [ticks EXCEPT
          ![k].pc = IF FindDevice(ticks[k].site) # 0 THEN "weather" ELSE "createDevice",
          ![k].dev = FindDevice(ticks[k].site)]
    /\ UNCHANGED <<regVars, procVars, starts, clock, dbVars, wsVars, histVars>>
    /\ UNCHANGED extVars

\* prisma.device.create answers
TickDeviceCreate(k) ==
    /\ ~exited
    /\ k \in 1..Len(ticks)
    /\ ticks[k].pc = "createDevice"
    /\ devices' = Append(devices, ticks[k].site)
    /\ ticks' = [ticks EXCEPT ![k].pc = "weather", ![k].dev = Len(devices) + 1]
    /\ UNCHANGED <<regVars, procVars, starts, clock, sites, weather, telemetry,
                   wsVars, histVars>>
    /\ UNCHANGED extVars

\* mutant: the payload is sent once the weather record is written
TickWeather_Publishes(k) ==
    /\ ~exited
    /\ k \in 1..Len(ticks)
    /\ ticks[k].pc = "weather"
    /\ SiteFound(ticks[k].site)
    /\ weather' = Append(weather, [site |-> ticks[k].site, ts |-> ticks[k].now])
    /\ delivered' = [c \in Clients |->
          IF clientState[c] = "open"
          THEN Append(delivered[c], [site |-> ticks[k].site, ts |-> ticks[k].now])
          ELSE delivered[c]]
    /\ ticks' = [ticks EXCEPT ![k].pc = "telemetry"]
    /\ UNCHANGED <<regVars, procVars, starts, clock, sites, devices, telemetry,
                   clientState, histVars>>
    /\ UNCHANGED extVars

\* mutant: a weather write waits while another tick is between its two writes
TickWeather_Serialised(k) ==
    /\ ~exited
    /\ k \in 1..Len(ticks)
    /\ ticks[k].pc = "weather"
    /\ SiteFound(ticks[k].site)
    /\ \A j \in 1..Len(ticks) : ticks[j].pc # "telemetry"
    /\ weather' = Append(weather, [site |-> ticks[k].site, ts |-> ticks[k].now])
    /\ ticks' = [ticks EXCEPT ![k].pc = "telemetry"]
    /\ UNCHANGED <<regVars, procVars, starts, clock, sites, devices, telemetry,
                   wsVars, histVars>>
    /\ UNCHANGED extVars

\* prisma.weatherData.create answers (weather_data.site_id references site, so
\* the insert is rejected when the site row is gone: TickDbError)
TickWeather(k) ==
    /\ ~exited
    /\ k \in 1..Len(ticks)
    /\ ticks[k].pc = "weather"
    /\ SiteFound(ticks[k].site)
    /\ weather' = Append(weather, [site |-> ticks[k].site, ts |-> ticks[k].now])
    /\ ticks' = [ticks EXCEPT ![k].pc = "telemetry"]
    /\ UNCHANGED <<regVars, procVars, starts, clock, sites, devices, telemetry,
                   wsVars, histVars>>
    /\ UNCHANGED extVars

\* the subscribers with readyState 1
ReadyClients ==
    {c \in Clients : clientState[c] = "open"}

\* mutant: the readyState test is inverted
Publish_NotReady(msg, thrower) ==
    [c \in Clients |->
        IF clientState[c] # "open" /\ (thrower = 0 \/ c < thrower)
        THEN Append(delivered[c], msg)
        ELSE delivered[c]]

\* wss.clients.forEach: every ready client before the one whose send throws (0:
\* none throws) is sent the payload
Publish(msg, thrower) ==
    [c \in Clients |->
        IF c \in ReadyClients /\ (thrower = 0 \/ c < thrower)
        THEN Append(delivered[c], msg)
        ELSE delivered[c]]

\* prisma.telemetry.create answers and the payload is sent to the subscribers
TickTelemetry(k, thrower) ==
    /\ ~exited
    /\ k \in 1..Len(ticks)
    /\ ticks[k].pc = "telemetry"
    /\ thrower \in ReadyClients \cup {0}
    /\ telemetry' = Append(telemetry, [dev |-> ticks[k].dev, ts |-> ticks[k].now])
    /\ delivered' = Publish([site |-> ticks[k].site, ts |-> ticks[k].now], thrower)
    /\ TickEnd(k, IF thrower = 0 THEN "done" ELSE "failed")
    /\ UNCHANGED <<procVars, starts, clock, sites, devices, weather, clientState,
                   signals, sweeps, lastStop, lastCtl>>
    /\ UNCHANGED extVars

\* a persistence call of a tick rejects: the catch block logs it
TickDbError(k) ==
    /\ ~exited
    /\ k \in 1..Len(ticks)
    /\ ticks[k].pc \in AwaitPcs
    /\ TickEnd(k, "failed")
    /\ UNCHANGED <<procVars, starts, clock, dbVars, wsVars,
                   signals, sweeps, lastStop, lastCtl>>
    /\ UNCHANGED extVars

\* ----------------------------------------------------------- seed route

\* Math.round(a / b) for a >= 0, b > 0
RoundDiv(a, b) ==
    (a \div b) + (IF 2 * (a % b) >= b THEN 1 ELSE 0)

\* mutant: the base of the timestamps is the instant of the request
StartOfDay_Now(now) ==
    now

\* new Date(now.getFullYear(), now.getMonth(), now.getDate()).getTime()
StartOfDay(now) ==
    now - (now % MsPerDay)

\* mutant: the samples are an hour apart whatever points is
SeedTimestamp_Hourly(base, i, points) ==
    base + i * MsPerHour

\* base.getTime() + Math.round(hour * 3600 * 1000), hour = (i * 24) / points
SeedTimestamp(base, i, points) ==
    base + RoundDiv(i * MsPerDay, points)

\* the test of the loop for (i = 0; i < points; i++): the next iteration
\* begins at its weather insert, or the route answers {created}
SeedLoop(r) ==
    IF r.i < r.points
    THEN [r EXCEPT !.pc = "weather"]
    ELSE [r EXCEPT !.pc = "done", !.resp = "created", !.count = r.created]

\* POST /sites/:id/simulate/seed, up to the await of the site lookup
\* (wts, tts, madeDev, absent and failedAt record, for the properties, what
\* the request wrote and where it failed)
SeedRoute(id, points) ==
    /\ ~exited /\ listening
    /\ Len(seeds) < MaxSeeds
    /\ seeds' = Append(seeds,
          [site |-> id, points |-> points, pc |-> "findSite", i |-> 0,
           dev |-> 0, now |-> 0, base |-> 0, created |-> 0,
           resp |-> "none", count |-> NoCount,
           wts |-> <<>>, tts |-> <<>>, madeDev |-> FALSE, absent |-> FALSE,
           failedAt |-> "none"])
    /\ UNCHANGED <<regVars, procVars, starts, ticks, clock, dbVars, wsVars,
                   histVars, sample, reads, clears>>

\* a seed request of a caller other than the dashboard
SeedBegin(id, points) ==
    SeedRoute(id, points) /\ UNCHANGED dash

\* mutant: the route does not test the answer of the site lookup
SeedSiteLookup_NoCheck(j) ==
    /\ ~exited
    /\ j \in 1..Len(seeds)
    /\ seeds[j].pc = "findSite"
    /\ seeds' = [seeds EXCEPT ![j] =
          [@ EXCEPT !.pc = "findDevice", !.now = clock,
                       !.base = StartOfDay(clock)]]
    /\ UNCHANGED <<regVars, procVars, starts, ticks, clock, dbVars, wsVars,
                   histVars, sample, reads, clears, dash>>

\* prisma.site.findUnique answers: 404, or base is computed and
\* ensureSiteDevice begins
SeedSiteLookup(j) ==
    /\ ~exited
    /\ j \in 1..Len(seeds)
    /\ seeds[j].pc = "findSite"
    /\ seeds' = [seeds EXCEPT ![j] =
          IF SiteFound(seeds[j].site)
          THEN [@ EXCEPT !.pc = "findDevice", !.now = clock,
                       !.base = StartOfDay(clock)]
          ELSE [@ EXCEPT !.pc = "done", !.resp = "notfound", !.absent = TRUE]]
    /\ UNCHANGED <<regVars, procVars, starts, ticks, clock, dbVars, wsVars,
                   histVars, sample, reads, clears, dash>>

\* prisma.device.findFirst answers: the device exists and the loop begins, or
\* the creation of the device begins
SeedDeviceLookup(j) ==
    /\ ~exited
    /\ j \in 1..Len(seeds)
    /\ seeds[j].pc = "findDevice"
    /\ seeds' = [seeds EXCEPT ![j] =
          IF FindDevice(seeds[j].site) # 0
          THEN SeedLoop([@ EXCEPT !.dev = FindDevice(seeds[j].site)])
          ELSE [@ EXCEPT !.pc = "createDevice"]]
    /\ UNCHANGED <<regVars, procVars, starts, ticks, clock, dbVars, wsVars,
                   histVars, sample, reads, clears, dash>>

\* prisma.device.create answers and the loop begins
SeedDeviceCreate(j) ==
    /\ ~exited
    /\ j \in 1..Len(seeds)
    /\ seeds[j].pc = "createDevice"
    /\ devices' = Append(devices, seeds[j].site)
    /\ seeds' = [seeds EXCEPT ![j] =
          SeedLoop([@ EXCEPT !.dev = Len(devices) + 1, !.madeDev = TRUE])]
    /\ UNCHANGED <<regVars, procVars, starts, ticks, clock, sites, weather,
                   telemetry, wsVars, histVars, sample, reads, clears, dash>>

\* prisma.weatherData.create of iteration i answers (the insert is rejected
\* when the site row is gone: SeedDbError)
SeedWeather(j) ==
    /\ ~exited
    /\ j \in 1..Len(seeds)
    /\ seeds[j].pc = "weather"
    /\ SiteFound(seeds[j].site)
    /\ LET timestamp == SeedTimestamp(seeds[j].base, seeds[j].i, seeds[j].points)
       IN /\ weather' = Append(weather, [site |-> seeds[j].site, ts |-> timestamp])
          /\ seeds' = [seeds EXCEPT ![j].pc = "telemetry",
                                    ![j].wts = Append(@, timestamp)]
    /\ UNCHANGED <<regVars, procVars, starts, ticks, clock, sites, devices,
                   telemetry, wsVars, histVars, sample, reads, clears, dash>>

\* mutant: the seed route publishes each sample as the live tick does
SeedTelemetry_Publishes(j) ==
    /\ ~exited
    /\ j \in 1..Len(seeds)
    /\ seeds[j].pc = "telemetry"
    /\ LET timestamp == SeedTimestamp(seeds[j].base, seeds[j].i, seeds[j].points)
       IN /\ telemetry' = Append(telemetry, [dev |-> seeds[j].dev, ts |-> timestamp])
          /\ delivered' = Publish([site |-> seeds[j].site, ts |-> timestamp], 0)
          /\ seeds' = [seeds EXCEPT ![j] =
                SeedLoop([@ EXCEPT !.created = @ + 1, !.i = @ + 1,
                                   !.tts = Append(@, timestamp)])]
    /\ UNCHANGED <<regVars, procVars, starts, ticks, clock, sites, devices,
                   weather, clientState, histVars, sample, reads, clears, dash>>

\* prisma.telemetry.create of iteration i answers, created.push(t), i++
SeedTelemetry(j) ==
    /\ ~exited
    /\ j \in 1..Len(seeds)
    /\ seeds[j].pc = "telemetry"
    /\ LET timestamp == SeedTimestamp(seeds[j].base, seeds[j].i, seeds[j].points)
       IN /\ telemetry' = Append(telemetry, [dev |-> seeds[j].dev, ts |-> timestamp])
          /\ seeds' = [seeds EXCEPT ![j] =
                SeedLoop([@ EXCEPT !.created = @ + 1, !.i = @ + 1,
                                   !.tts = Append(@, timestamp)])]
    /\ UNCHANGED <<regVars, procVars, starts, ticks, clock, sites, devices,
                   weather, wsVars, histVars, sample, reads, clears, dash>>

\* a persistence call of the seed route rejects: the catch block answers 500
\* {error: "Failed to seed telemetry"}
SeedDbError(j) ==
    /\ ~exited
    /\ j \in 1..Len(seeds)
    /\ seeds[j].pc \in AwaitPcs
    /\ seeds' = [seeds EXCEPT ![j].pc = "done", ![j].resp = "error",
                              ![j].count = NoCount, ![j].failedAt = seeds[j].pc]
    /\ UNCHANGED <<regVars, procVars, starts, ticks, clock, dbVars, wsVars,
                   histVars, sample, reads, clears, dash>>

\* ---------------------------------------------------------- clear route

\* no simulation of site s is running or being started, and no tick or seed
\* of s is in flight
Quiet(s) ==
    /\ \A t \in 1..Len(timers) : timers[t].site = s => ~timers[t].live
    /\ \A i \in 1..Len(starts) : starts[i].site = s => starts[i].pc = "done"
    /\ \A k \in 1..Len(ticks) : ticks[k].site = s => ticks[k].pc \notin AwaitPcs
    /\ \A j \in 1..Len(seeds) : seeds[j].site = s => seeds[j].pc = "done"

\* DELETE /sites/:id/simulate/clear, up to the await of the device lookup
\* (nStarts, nTicks, nSeeds and quiet record how many requests and ticks had
\* begun, and whether the site was quiet)
ClearBegin(id) ==
    /\ ~exited /\ listening
    /\ Len(clears) < MaxClears
    /\ clears' = Append(clears,
          [site |-> id, dev |-> 0,
           pc |-> IF id = NaN THEN "done" ELSE "findDevice",
           resp |-> IF id = NaN THEN "invalid" ELSE "none",
           nStarts |-> Len(starts), nTicks |-> Len(ticks), nSeeds |-> Len(seeds),
           quiet |-> Quiet(id)])
    /\ UNCHANGED <<regVars, procVars, starts, ticks, clock, dbVars, wsVars,
                   histVars, sample, reads, seeds, dash>>

\* prisma.device.findFirst answers: the device's telemetry is deleted next, or
\* with no device the weather rows are
ClearDeviceLookup(c) ==
    /\ ~exited
    /\ c \in 1..Len(clears)
    /\ clears[c].pc = "findDevice"
    /\ clears' = [clears EXCEPT
          ![c].dev = FindDevice(clears[c].site),
          ![c].pc = IF FindDevice(clears[c].site) # 0 THEN "telemetry" ELSE "weather"]
    /\ UNCHANGED <<regVars, procVars, starts, ticks, clock, dbVars, wsVars,
                   histVars, sample, reads, seeds, dash>>

\* prisma.telemetry.deleteMany({device_id}) answers
ClearTelemetry(c) ==
    /\ ~exited
    /\ c \in 1..Len(clears)
    /\ clears[c].pc = "telemetry"
    /\ telemetry' = SelectSeq(telemetry, LAMBDA r : r.dev # clears[c].dev)
    /\ clears' = [clears EXCEPT ![c].pc = "weather"]
    /\ UNCHANGED <<regVars, procVars, starts, ticks, clock, sites, devices,
                   weather, wsVars, histVars, sample, reads, seeds, dash>>

\* mutant: clearing a site's data also stops its simulation
ClearWeather_StopsSimulation(c) ==
    /\ ~exited
    /\ c \in 1..Len(clears)
    /\ clears[c].pc = "weather"
    /\ weather' = SelectSeq(weather, LAMBDA r : r.site # clears[c].site)
    /\ clears' = [clears EXCEPT ![c].pc = "done", ![c].resp = "cleared"]
    /\ timers' = [t \in 1..Len(timers) |->
                     IF timers[t].site = clears[c].site
                     THEN [timers[t] EXCEPT !.live = FALSE] ELSE timers[t]]
    /\ simulators' = [simulators EXCEPT ![clears[c].site] = NoTimer]
    /\ UNCHANGED <<procVars, starts, ticks, clock, sites, devices,
                   telemetry, wsVars, histVars, sample, reads, seeds, dash>>

\* prisma.weatherData.deleteMany({site_id}) answers and the route answers
\* {cleared: true}
ClearWeather(c) ==
    /\ ~exited
    /\ c \in 1..Len(clears)
    /\ clears[c].pc = "weather"
    /\ weather' = SelectSeq(weather, LAMBDA r : r.site # clears[c].site)
    /\ clears' = [clears EXCEPT ![c].pc = "done", ![c].resp = "cleared"]
    /\ UNCHANGED <<regVars, procVars, starts, ticks, clock, sites, devices,
                   telemetry, wsVars, histVars, sample, reads, seeds, dash>>

\* a persistence call of the clear route rejects: the catch block answers 500
ClearDbError(c) ==
    /\ ~exited
    /\ c \in 1..Len(clears)
    /\ clears[c].pc \in {"findDevice", "telemetry", "weather"}
    /\ clears' = [clears EXCEPT ![c].pc = "done", ![c].resp = "error"]
    /\ UNCHANGED <<regVars, procVars, starts, ticks, clock, dbVars, wsVars,
                   histVars, sample, reads, seeds, dash>>

\* ------------------------------------------------------- telemetry route

\* the default of the limit query parameter
DefaultLimit == 200

\* orderBy timestamp desc, take n
RECURSIVE TakeDesc(_, _)
TakeDesc(rows, n) ==
    IF n = 0 \/ rows = <<>>
    THEN <<>>
    ELSE LET m == CHOOSE i \in 1..Len(rows) :
                     \A j \in 1..Len(rows) : rows[j].ts <= rows[i].ts
             rest == [j \in 1..(Len(rows) - 1) |->
                         IF j < m THEN rows[j] ELSE rows[j + 1]]
         IN <<rows[m]>> \o TakeDesc(rest, n - 1)

\* GET /sites/:id/telemetry, up to the await of the device lookup
ReadRoute(id, limit) ==
    /\ ~exited /\ listening
    /\ Len(reads) < MaxReads
    /\ reads' = Append(reads,
          [site |-> id, limit |-> limit, pc |-> "findDevice", dev |-> 0,
           resp |-> "none", rows |-> <<>>])
    /\ UNCHANGED <<regVars, procVars, starts, ticks, clock, dbVars, wsVars,
                   histVars, sample, seeds, clears>>

\* a telemetry request of a caller other than the dashboard
ReadBegin(id, limit) ==
    ReadRoute(id, limit) /\ UNCHANGED dash

\* prisma.device.findFirst answers: with no device the route answers [],
\* otherwise the device's telemetry is looked up
ReadDeviceLookup(r) ==
    /\ ~exited
    /\ r \in 1..Len(reads)
    /\ reads[r].pc = "findDevice"
    /\ reads' = [reads EXCEPT
          ![r].dev = FindDevice(reads[r].site),
          ![r].pc = IF FindDevice(reads[r].site) # 0 THEN "findMany" ELSE "done",
          ![r].resp = IF FindDevice(reads[r].site) # 0 THEN "none" ELSE "ok"]
    /\ UNCHANGED <<regVars, procVars, starts, ticks, clock, dbVars, wsVars,
                   histVars, sample, seeds, clears, dash>>

\* prisma.telemetry.findMany answers and the route answers the rows
ReadRows(r) ==
    /\ ~exited
    /\ r \in 1..Len(reads)
    /\ reads[r].pc = "findMany"
    /\ reads' = [reads EXCEPT
          ![r].rows = TakeDesc(SelectSeq(telemetry, LAMBDA x : x.dev = reads[r].dev),
                               reads[r].limit),
          ![r].pc = "done",
          ![r].resp = "ok"]
    /\ UNCHANGED <<regVars, procVars, starts, ticks, clock, dbVars, wsVars,
                   histVars, sample, seeds, clears, dash>>

\* ------------------------------------------------------------ dashboard
\* Dashboard.tsx: the status check of the mount effect, handleStartSim and
\* handleStopSim, each split at its awaits. A setState takes effect at once.

\* GET /sites/:id/simulate/status: index.ts registers no such route, so the
\* framework answers 404
StatusRoute(id) ==
    "notfound"

\* the component mounts: the effect sends the status request
DashMount ==
    /\ dash.mount = "none"
    /\ dash' = [dash EXCEPT !.mount = "sent"]
    /\ UNCHANGED <<regVars, procVars, starts, ticks, clock, dbVars, wsVars,
                   histVars, srvVars>>

\* the server answers the status request
DashStatusServed ==
    /\ ~exited /\ listening
    /\ dash.mount = "sent"
    /\ dash' = [dash EXCEPT !.mount = "answered",
                            !.statusResp = StatusRoute(SITE_ID)]
    /\ UNCHANGED <<regVars, procVars, starts, ticks, clock, dbVars, wsVars,
                   histVars, srvVars>>

\* .then: setIsSimulating(!!res.data.running); .catch (a 404, a network
\* error): the error is logged and isSimulating keeps its value. Unless the
\* answer is "running", fetchHistory(true) is called: it sends its telemetry
\* request and is not awaited
DashStatusEnd ==
    /\ dash.mount = "answered"
    /\ dash' = [dash EXCEPT
          !.mount = "done",
          !.isSimulating = IF dash.statusResp \in {"running", "idle"}
                           THEN dash.statusResp = "running" ELSE @,
          !.fh = IF dash.statusResp = "running" THEN @
                 ELSE [@ EXCEPT !.pc = "getSent", !.seedIfEmpty = TRUE,
                                !.gets = 1]]
    /\ UNCHANGED <<regVars, procVars, starts, ticks, clock, dbVars, wsVars,
                   histVars, srvVars>>

\* the server receives the telemetry request of fetchHistory
FetchGetServed ==
    /\ dash.fh.pc = "getSent"
    /\ ReadRoute(SITE_ID, DefaultLimit)
    /\ dash' = [dash EXCEPT !.fh.pc = "getWait", !.fh.req = Len(reads) + 1]

\* mutant: the recursive call may seed again
FetchAgain_Reseeds(fh) ==
    [fh EXCEPT !.pc = "getSent", !.seedIfEmpty = TRUE,
               !.depth = @ + 1, !.gets = @ + 1]

\* return fetchHistory(false): the recursive call sends its telemetry request
FetchAgain(fh) ==
    [fh EXCEPT !.pc = "getSent", !.seedIfEmpty = FALSE,
               !.depth = @ + 1, !.gets = @ + 1]

\* the history reaches fetchHistory (allZero: every power parses to 0): when
\* it is empty or all zero and seedIfEmpty is set the seed request is sent,
\* otherwise setPowerData(history) and the call returns
FetchGetAnswered(allZero) ==
    /\ dash.fh.pc = "getWait"
    /\ reads[dash.fh.req].pc = "done"
    /\ allZero => reads[dash.fh.req].rows # <<>>
    /\ dash' = [dash EXCEPT !.fh =
          IF (reads[dash.fh.req].rows = <<>> \/ allZero) /\ dash.fh.seedIfEmpty
          THEN [@ EXCEPT !.pc = "seedSent", !.posts = @ + 1]
          ELSE [@ EXCEPT !.pc = "done", !.shown = Len(reads[dash.fh.req].rows)]]
    /\ UNCHANGED <<regVars, procVars, starts, ticks, clock, dbVars, wsVars,
                   histVars, srvVars>>

\* the telemetry request finds the server closed: the outer catch logs the
\* error and the call returns
FetchGetFailed ==
    /\ exited \/ ~listening
    /\ dash.fh.pc = "getSent"
    /\ dash' = [dash EXCEPT !.fh.pc = "done"]
    /\ UNCHANGED <<regVars, procVars, starts, ticks, clock, dbVars, wsVars,
                   histVars, srvVars>>

\* the server receives the seed request of fetchHistory ({points: 24})
FetchSeedServed ==
    /\ dash.fh.pc = "seedSent"
    /\ SeedRoute(SITE_ID, DefaultPoints)
    /\ dash' = [dash EXCEPT !.fh.pc = "seedWait", !.fh.req = Len(seeds) + 1]

\* the seed route answers, with success or an error status (the inner catch
\* logs it), and fetchHistory(false) is called
FetchSeedAnswered ==
    /\ dash.fh.pc = "seedWait"
    /\ seeds[dash.fh.req].pc = "done"
    /\ dash' = [dash EXCEPT !.fh = FetchAgain(@)]
    /\ UNCHANGED <<regVars, procVars, starts, ticks, clock, dbVars, wsVars,
                   histVars, srvVars>>

\* the seed request finds the server closed: the inner catch logs the error
\* and fetchHistory(false) is called
FetchSeedFailed ==
    /\ exited \/ ~listening
    /\ dash.fh.pc = "seedSent"
    /\ dash' = [dash EXCEPT !.fh = FetchAgain(@)]
    /\ UNCHANGED <<regVars, procVars, starts, ticks, clock, dbVars, wsVars,
                   histVars, srvVars>>

\* handleStartSim (the Start button is enabled): setIsLoading(true) and
\* fetchHistory(false) begins
DashStartBegin ==
    /\ dash.mount # "none"
    /\ dash.op = "idle"
    /\ ~dash.isLoading /\ ~dash.isSimulating
    /\ dash' = [dash EXCEPT !.op = "history", !.isLoading = TRUE]
    /\ UNCHANGED <<regVars, procVars, starts, ticks, clock, dbVars, wsVars,
                   histVars, srvVars>>

\* fetchHistory(false) resolves (it catches its own errors) and the start
\* request is sent
DashHistoryDone ==
    /\ dash.op = "history"
    /\ dash' = [dash EXCEPT !.op = "startSent"]
    /\ UNCHANGED <<regVars, procVars, starts, ticks, clock, dbVars, wsVars,
                   histVars, srvVars>>

\* the server receives the dashboard's start request
DashStartServed ==
    /\ dash.op = "startSent"
    /\ StartRoute(SITE_ID, INTERVAL_MS)
    /\ dash' = [dash EXCEPT !.op = "startWait", !.req = Len(starts) + 1]

\* the answer of the start route reaches the dashboard
DashStartAnswered ==
    /\ dash.op = "startWait"
    /\ starts[dash.req].pc = "done"
    /\ dash' = [dash EXCEPT !.op = "startAnswered", !.resp = starts[dash.req].resp]
    /\ UNCHANGED <<regVars, procVars, starts, ticks, clock, dbVars, wsVars,
                   histVars, srvVars>>

\* the rest of handleStartSim: setIsSimulating(true) after a 2xx answer, the
\* catch block otherwise; finally setIsLoading(false)
DashStartEnd ==
    /\ dash.op = "startAnswered"
    /\ dash' = [dash EXCEPT
          !.op = "idle", !.isLoading = FALSE,
          !.isSimulating = IF dash.resp = "started" THEN TRUE ELSE @,
          !.done = <<"start", dash.resp, dash.isSimulating>>]
    /\ UNCHANGED <<regVars, procVars, starts, ticks, clock, dbVars, wsVars,
                   histVars, srvVars>>

\* handleStopSim (the Stop button is enabled): setIsLoading(true) and the stop
\* request is sent
DashStopBegin ==
    /\ dash.mount # "none"
    /\ dash.op = "idle"
    /\ ~dash.isLoading /\ dash.isSimulating
    /\ dash' = [dash EXCEPT !.op = "stopSent", !.isLoading = TRUE]
    /\ UNCHANGED <<regVars, procVars, starts, ticks, clock, dbVars, wsVars,
                   histVars, srvVars>>

\* the server receives the dashboard's stop request and answers it
DashStopServed ==
    /\ dash.op = "stopSent"
    /\ StopRoute(SITE_ID)
    /\ dash' = [dash EXCEPT !.op = "stopAnswered", !.resp = lastStop'.resp]

\* mutant: a 404 of the stop route is treated like any other error
DashStopEnd_Surfaces404 ==
    /\ dash.op = "stopAnswered"
    /\ dash' = [dash EXCEPT
          !.op = "idle", !.isLoading = FALSE,
          !.isSimulating = IF dash.resp = "stopped" THEN FALSE ELSE @,
          !.done = <<"stop", dash.resp, dash.isSimulating>>]
    /\ UNCHANGED <<regVars, procVars, starts, ticks, clock, dbVars, wsVars,
                   histVars, srvVars>>

\* the rest of handleStopSim: setIsSimulating(false) after a 2xx answer and,
\* in the catch block, after a 404; finally setIsLoading(false)
DashStopEnd ==
    /\ dash.op = "stopAnswered"
    /\ dash' = [dash EXCEPT
          !.op = "idle", !.isLoading = FALSE,
          !.isSimulating = IF dash.resp = "stopped" THEN FALSE
                           ELSE IF dash.resp = "notrunning" THEN FALSE ELSE @,
          !.done = <<"stop", dash.resp, dash.isSimulating>>]
    /\ UNCHANGED <<regVars, procVars, starts, ticks, clock, dbVars, wsVars,
                   histVars, srvVars>>

\* a request of the dashboard finds the server closed: the call rejects with
\* a network error
DashNetError ==
    /\ exited \/ ~listening
    /\ dash.op \in {"startSent", "stopSent"}
    /\ dash' = [dash EXCEPT
          !.op = IF dash.op = "startSent" THEN "startAnswered" ELSE "stopAnswered",
          !.resp = "neterror"]
    /\ UNCHANGED <<regVars, procVars, starts, ticks, clock, dbVars, wsVars,
                   histVars, srvVars>>

\* ------------------------------------------------------------ environment

\* a millisecond passes
Advance ==
    /\ ~exited
    /\ clock < MaxClock
    /\ clock' = clock + 1
    /\ UNCHANGED <<regVars, procVars, starts, ticks, dbVars, wsVars, histVars>>
    /\ UNCHANGED extVars

\* a row of the site table is deleted (the table is managed outside the
\* server); weather_data.site_id references it, so no weather row names it
DbDeleteSite(s) ==
    /\ ~exited
    /\ s \in sites
    /\ \A r \in 1..Len(weather) : weather[r].site # s
    /\ sites' = sites \ {s}
    /\ UNCHANGED <<regVars, procVars, starts, ticks, clock, devices, weather,
                   telemetry, wsVars, histVars>>
    /\ UNCHANGED extVars

\* a subscriber connects
WsConnect(c) ==
    /\ ~exited /\ wssOpen
    /\ clientState[c] = "absent"
    /\ clientState' = [clientState EXCEPT ![c] = "open"]
    /\ UNCHANGED <<regVars, procVars, starts, ticks, clock, dbVars, delivered,
                   histVars>>
    /\ UNCHANGED extVars

\* a subscriber's connection starts closing (readyState 2), then is gone
WsClose(c) ==
    /\ ~exited
    /\ clientState[c] # "absent"
    /\ clientState' = [clientState EXCEPT
          ![c] = IF clientState[c] = "open" THEN "closing" ELSE "absent"]
    /\ UNCHANGED <<regVars, procVars, starts, ticks, clock, dbVars, delivered,
                   histVars>>
    /\ UNCHANGED extVars

\* the sample generator runs for a site row and a timestamp: the physics, the
\* values as the weather and telemetry rows store them, and the payload the
\* tick callback builds from the returned sample
GenerateSample(capacity_kw, timestamp, rnd) ==
    /\ ~exited
    /\ LET physics == computeSitePhysics(capacity_kw, timestamp, rnd)
       IN sample' = [made |-> TRUE, cap |-> capacity_kw, ts |-> timestamp,
                     rnd |-> rnd, physics |-> physics,
                     value |-> ToFixed4(physics.powerKw),
                     stored |-> [timestamp |-> timestamp,
                                 value |-> ToFixed4(physics.powerKw),
                                 irradiance_wm2 |-> ToFixed2(physics.irradiance),
                                 module_temp_c |-> ToFixed2(physics.moduleTempC)],
                     payload |-> [timestamp |-> timestamp,
                                  powerKw |-> physics.powerKw,
                                  irradiance |-> physics.irradiance,
                                  temp |-> physics.moduleTempC]]
    /\ UNCHANGED <<regVars, procVars, starts, ticks, clock, dbVars, wsVars,
                   histVars, reads, seeds, clears, dash>>

\* computeACPowerKw runs for one capacity and module temperature on two
\* irradiances, lower <= irradiance
ComputePower(capacityKw, moduleTempC, lower, irradiance) ==
    /\ ~exited
    /\ lower <= irradiance
    /\ sample' = [made |-> FALSE,
                  ac |-> [capacityKw |-> capacityKw, moduleTempC |-> moduleTempC,
                          lower |-> lower, irradiance |-> irradiance,
                          lowerKw |-> computeACPowerKw(capacityKw, lower, moduleTempC),
                          kw |-> computeACPowerKw(capacityKw, irradiance, moduleTempC)]]
    /\ UNCHANGED <<regVars, procVars, starts, ticks, clock, dbVars, wsVars,
                   histVars, reads, seeds, clears, dash>>

\* ---------------------------------------------------------- specifications

\* the segments of the tick callback
TickStep ==
    \/ \E t \in 1..MaxStarts : TickBegin(t)
    \/ \E k \in 1..MaxTicks : TickSiteLookup(k)
    \/ \E k \in 1..MaxTicks : TickDeviceLookup(k)
    \/ \E k \in 1..MaxTicks : TickDeviceCreate(k)
    \/ \E k \in 1..MaxTicks : TickWeather(k)
    \/ \E k \in 1..MaxTicks, c \in Clients \cup {0} : TickTelemetry(k, c)
    \/ \E k \in 1..MaxTicks : TickDbError(k)

\* the whole server with its environment
Next ==
    \/ \E id \in SiteIds \cup {NaN}, ms \in Intervals : StartBegin(id, ms)
    \/ \E i \in 1..MaxStarts : StartResume(i)
    \/ \E id \in SiteIds \cup {NaN} : Stop(id)
    \/ \E sig \in Signals : SignalHandled(sig)
    \/ \E sig \in Signals : SignalDefault(sig)
    \/ ServerClosed
    \/ TickStep
    \/ Advance
    \/ \E s \in SiteIds : DbDeleteSite(s)
    \/ \E c \in Clients : WsConnect(c)
    \/ \E c \in Clients : WsClose(c)

Spec == Init /\ [][Next]_vars

\* The control plane: start and stop requests for every site id and timers
\* that fire.
NextControl ==
    \/ \E id \in SiteIds \cup {NaN} : StartBegin(id, 1)
    \/ \E i \in 1..MaxStarts : StartResume(i)
    \/ \E id \in SiteIds \cup {NaN} : Stop(id)
    \/ \E t \in 1..MaxStarts : TickBegin(t)

SpecControl == Init /\ [][NextControl]_vars

\* Process termination: start and stop requests, timers that fire, and the
\* termination signals.
NextShutdown ==
    \/ \E id \in SiteIds : StartBegin(id, 1)
    \/ \E i \in 1..MaxStarts : StartResume(i)
    \/ \E id \in SiteIds : Stop(id)
    \/ \E sig \in Signals : SignalHandled(sig)
    \/ \E sig \in Signals : SignalDefault(sig)
    \/ ServerClosed
    \/ \E t \in 1..MaxStarts : TickBegin(t)

SpecShutdown == Init /\ [][NextShutdown]_vars

\* Site validation: start requests, and a site table that changes under the
\* server.
NextSites ==
    \/ \E id \in SiteIds : StartBegin(id, 1)
    \/ \E i \in 1..MaxStarts : StartResume(i)
    \/ \E id \in SiteIds : Stop(id)
    \/ \E s \in SiteIds : DbDeleteSite(s)

SpecSites == Init /\ [][NextSites]_vars

\* The live driver of one site: one start request for site 1, then the tick
\* callback with every persistence call and the fan-out, the clock, and the
\* site table.
NextLive ==
    \/ \E ms \in Intervals : starts = <<>> /\ StartBegin(1, ms)
    \/ \E i \in 1..MaxStarts : StartResume(i)
    \/ TickStep
    \/ Advance
    \/ DbDeleteSite(1)

SpecLive == Init /\ [][NextLive]_vars

\* The live driver under the scheduling of the runtime: a timer that is
\* installed and due fires (setInterval re-arms it after every firing).
SpecLiveFair ==
    /\ Init
    /\ [][NextLive]_vars
    /\ WF_vars(\E t \in 1..MaxStarts : TickBegin(t))

\* Admission: start requests for site 1 that overlap, and one stop request.
NextAdmit ==
    \/ StartBegin(1, 1)
    \/ \E i \in 1..MaxStarts : StartResume(i)
    \/ lastStop.resp = "none" /\ Stop(1)

SpecAdmit == Init /\ [][NextAdmit]_vars

\* the segments of the seed route
SeedStep ==
    \/ \E j \in 1..MaxSeeds : SeedSiteLookup(j)
    \/ \E j \in 1..MaxSeeds : SeedDeviceLookup(j)
    \/ \E j \in 1..MaxSeeds : SeedDeviceCreate(j)
    \/ \E j \in 1..MaxSeeds : SeedWeather(j)
    \/ \E j \in 1..MaxSeeds : SeedTelemetry(j)
    \/ \E j \in 1..MaxSeeds : SeedDbError(j)

\* the segments of the clear route
ClearStep ==
    \/ \E c \in 1..MaxClears : ClearDeviceLookup(c)
    \/ \E c \in 1..MaxClears : ClearTelemetry(c)
    \/ \E c \in 1..MaxClears : ClearWeather(c)
    \/ \E c \in 1..MaxClears : ClearDbError(c)

\* Seeding: one seed request, for any site and points, over a site table that
\* changes, beside a live simulation of site 1 and its timer.
NextSeed ==
    \/ \E id \in SiteIds, n \in SeedPoints : seeds = <<>> /\ SeedBegin(id, n)
    \/ SeedStep
    \/ \E s \in SiteIds : DbDeleteSite(s)
    \/ starts = <<>> /\ StartBegin(1, 1)
    \/ \E i \in 1..MaxStarts : StartResume(i)
    \/ Stop(1)
    \/ \E t \in 1..MaxStarts : TickBegin(t)

SpecSeed == Init /\ [][NextSeed]_vars

\* Stored data: overlapping seed requests of one point for site 1, and clear
\* requests, with every site present and no subscriber.
NextData ==
    \/ SeedBegin(1, 1)
    \/ SeedStep
    \/ \E id \in {1, NaN} : ClearBegin(id)
    \/ ClearStep

InitData ==
    /\ Init
    /\ sites = SiteIds
    /\ \A c \in Clients : clientState[c] = "absent"

SpecData == InitData /\ [][NextData]_vars

\* Two sites side by side: start and stop requests for both and the tick
\* callbacks of both, with every site present and one subscriber.
NextIsolation ==
    \/ \E id \in SiteIds : StartBegin(id, 1)
    \/ \E i \in 1..MaxStarts : StartResume(i)
    \/ \E id \in SiteIds : Stop(id)
    \/ TickStep

InitIsolation ==
    /\ Init
    /\ sites = SiteIds
    /\ clientState = [c \in Clients |-> IF c = 1 THEN "open" ELSE "absent"]

SpecIsolation == InitIsolation /\ [][NextIsolation]_vars

\* Cancellation: one start request for site 1, its ticks, a stop request and
\* an orderly shutdown through to process.exit; every site present and no
\* subscriber.
NextCancel ==
    \/ starts = <<>> /\ StartBegin(1, 1)
    \/ \E i \in 1..MaxStarts : StartResume(i)
    \/ Stop(1)
    \/ SignalHandled("SIGINT")
    \/ ServerClosed
    \/ \E t \in 1..MaxStarts : TickBegin(t)
    \/ \E k \in 1..MaxTicks : TickSiteLookup(k)
    \/ \E k \in 1..MaxTicks : TickDeviceLookup(k)
    \/ \E k \in 1..MaxTicks : TickDeviceCreate(k)
    \/ \E k \in 1..MaxTicks : TickWeather(k)
    \/ \E k \in 1..MaxTicks : TickTelemetry(k, 0)
    \/ \E k \in 1..MaxTicks : TickDbError(k)

SpecCancel == InitData /\ [][NextCancel]_vars

\* the segments of the telemetry route
ReadStep ==
    \/ \E r \in 1..MaxReads : ReadDeviceLookup(r)
    \/ \E r \in 1..MaxReads : ReadRows(r)

\* no seed, clear or telemetry request has been received
NoDataRequest ==
    seeds = <<>> /\ clears = <<>> /\ reads = <<>>

\* no seed, clear or telemetry request is in flight
DataIdle ==
    /\ \A j \in 1..Len(seeds) : seeds[j].pc = "done"
    /\ \A c \in 1..Len(clears) : clears[c].pc = "done"
    /\ \A r \in 1..Len(reads) : reads[r].pc = "done"

\* no tick is in flight
TickIdle ==
    \A k \in 1..Len(ticks) : ticks[k].pc \notin AwaitPcs

\* Repeated seeding: seed requests of one or two points for site 1 that
\* arrive one after the other at any instant, while time passes; every site
\* present and no subscriber.
NextReseed ==
    \/ \E n \in 1..2 : DataIdle /\ SeedBegin(1, n)
    \/ SeedStep
    \/ Advance

SpecReseed == InitData /\ [][NextReseed]_vars

\* The lifecycle of site 1: start and stop requests and a termination signal
\* at any moment, beside everything else the server does for the site: a
\* tick, and a seed, a clear or a telemetry request, one of them in flight at
\* a time; every site present and no subscriber.
NextLifecycle ==
    \/ StartBegin(1, 1)
    \/ \E i \in 1..MaxStarts : StartResume(i)
    \/ Stop(1)
    \/ SignalHandled("SIGINT")
    \/ \E t \in 1..MaxStarts : ticks = <<>> /\ DataIdle /\ TickBegin(t)
    \/ \E k \in 1..MaxTicks : TickSiteLookup(k)
    \/ \E k \in 1..MaxTicks : TickDeviceLookup(k)
    \/ \E k \in 1..MaxTicks : TickDeviceCreate(k)
    \/ \E k \in 1..MaxTicks : TickWeather(k)
    \/ \E k \in 1..MaxTicks : TickTelemetry(k, 0)
    \/ \E k \in 1..MaxTicks : TickDbError(k)
    \/ NoDataRequest /\ TickIdle /\ SeedBegin(1, 1)
    \/ SeedStep
    \/ NoDataRequest /\ TickIdle /\ ClearBegin(1)
    \/ ClearStep
    \/ NoDataRequest /\ TickIdle /\ ReadBegin(1, DefaultLimit)
    \/ ReadStep

SpecLifecycle == InitData /\ [][NextLifecycle]_vars

\* Publication: the live driver of site 1 with subscribers that connect and
\* close.
NextPublish ==
    \/ NextLive
    \/ \E c \in Clients : WsConnect(c)
    \/ \E c \in Clients : WsClose(c)

SpecPublish == Init /\ [][NextPublish]_vars

\* The dashboard of site 1 beside another caller of the start and stop
\* routes, and a termination signal; no subscriber.
NextDash ==
    \/ DashMount
    \/ DashStatusServed
    \/ DashStatusEnd
    \/ DashStartBegin
    \/ DashHistoryDone
    \/ DashStartServed
    \/ DashStartAnswered
    \/ DashStartEnd
    \/ DashStopBegin
    \/ DashStopServed
    \/ DashStopEnd
    \/ DashNetError
    \/ StartBegin(SITE_ID, 1)
    \/ \E i \in 1..MaxStarts : StartResume(i)
    \/ Stop(SITE_ID)
    \/ \E sig \in Signals : SignalHandled(sig)

InitDash ==
    /\ Init
    /\ \A c \in Clients : clientState[c] = "absent"

SpecDash == InitDash /\ [][NextDash]_vars

\* The history of the dashboard: the mount effect and its fetchHistory(true),
\* served by the telemetry and seed routes, beside a seed request of another
\* caller and a termination signal; no subscriber.
NextHistory ==
    \/ DataIdle /\ DashMount
    \/ DashStatusServed
    \/ DashStatusEnd
    \/ FetchGetServed
    \/ \E z \in BOOLEAN : FetchGetAnswered(z)
    \/ FetchGetFailed
    \/ FetchSeedServed
    \/ FetchSeedAnswered
    \/ FetchSeedFailed
    \/ ReadStep
    \/ SeedStep
    \/ seeds = <<>> /\ dash.mount = "none" /\ SeedBegin(SITE_ID, 1)
    \/ SignalHandled("SIGINT")

SpecHistory == InitDash /\ [][NextHistory]_vars

\* The sample generator on every site capacity, half hour and noise, with
\* every site present and no subscriber.
NextPhysics ==
    \E c \in Capacities, t \in SampleTimes, r \in Randoms : GenerateSample(c, t, r)

InitPhysics ==
    /\ Init
    /\ sites = SiteIds
    /\ \A c \in Clients : clientState[c] = "absent"

SpecPhysics == InitPhysics /\ [][NextPhysics]_vars

\* The power conversion on every capacity, module temperature and pair of
\* irradiances.
NextPower ==
    \E c \in PowerCapacities, m \in ModuleTemps, g0 \in Irradiances, g \in Irradiances :
        ComputePower(c, m, g0, g)

SpecPower == InitPhysics /\ [][NextPower]_vars

\* ------------------------------------------------------------- properties

\* the steps the properties speak of, recognised by what they record
StartArrives == Len(starts') = Len(starts) + 1
StopAnswered == lastStop'.n # lastStop.n
TickBegins == Len(ticks') = Len(ticks) + 1
SignalDelivered == Len(signals') = Len(signals) + 1

\* the timers installed by the start requests for site s that succeeded
StartedTimers(s) ==
    {starts[i].timer : i \in {j \in 1..Len(starts) :
                                starts[j].site = s /\ starts[j].resp = "started"}}

\* C1: in every reachable state every live timer is the one the registry
\* records for its site (so each site has at most one live timer, and stop can
\* cancel it).
C1_Claim ==
    \A t \in 1..Len(timers) :
        timers[t].live => simulators[timers[t].site] = t

\* C2: a start request that arrives after a start for the same site succeeded,
\* with no stop since, is answered AlreadyRunning at once, installs no timer
\* and leaves the registry holding the handle of the earlier start.
C2_SecondStartRejected ==
    [][StartArrives =>
         LET r == starts'[Len(starts')]
         IN (r.site \in SiteIds /\ lastCtl[r.site] = "started") =>
               /\ r.resp = "already"
               /\ r.timer = NoTimer
               /\ UNCHANGED regVars
               /\ simulators[r.site] \in StartedTimers(r.site)
               /\ \A t \in StartedTimers(r.site) : t <= simulators[r.site]]_vars

\* C2 witness: a start succeeded, a later one for the same site was answered
\* AlreadyRunning, and the registry holds the first one's timer.
C2_Witness ==
    \E i, j \in 1..Len(starts) :
        /\ i < j
        /\ starts[i].site = starts[j].site
        /\ starts[i].resp = "started"
        /\ starts[j].resp = "already"
        /\ simulators[starts[i].site] = starts[i].timer
        /\ timers[starts[i].timer].live

\* C3: of two start requests for the same existing site that were suspended at
\* the site lookup at the same time, exactly one succeeds and the other is
\* answered AlreadyRunning.
C3_Claim ==
    \A j \in 1..Len(starts) : \A i \in starts[j].peers :
        ( /\ starts[i].pc = "done" /\ starts[j].pc = "done"
          /\ starts[i].resp # "notfound" /\ starts[j].resp # "notfound" )
        => {starts[i].resp, starts[j].resp} = {"started", "already"}

\* a start request is answered in this step: at arrival, or on resumption
Answered(i) ==
    /\ i \in 1..Len(starts')
    /\ starts'[i].pc = "done"
    /\ i > Len(starts) \/ starts[i].pc = "lookup"

\* C4, as claimed: every start request for a site that does not exist when the
\* request arrives is answered SiteNotFound, installs no timer, and leaves the
\* registry without an entry for the site.
C4_Claim ==
    [][\A i \in 1..MaxStarts :
         (Answered(i) /\ starts'[i].site \in SiteIds /\ ~starts'[i].existed) =>
            /\ starts'[i].resp = "notfound"
            /\ UNCHANGED regVars
            /\ simulators'[starts'[i].site] = NoTimer]_vars

\* C4, amended: the same for the requests that find no simulation registered
\* for the site when they arrive (those that reach the site lookup).
C4_NotFoundLeavesNothing ==
    [][\A i \in 1..Len(starts) :
         ( /\ starts[i].pc = "lookup" /\ starts'[i].pc = "done"
           /\ ~starts[i].existed ) =>
            /\ starts'[i].resp = "notfound"
            /\ starts'[i].timer = NoTimer
            /\ UNCHANGED regVars
            /\ simulators'[starts[i].site] = NoTimer]_vars

\* C4 witness: a start request for a site that did not exist was answered
\* SiteNotFound.
C4_Witness ==
    \E i \in 1..Len(starts) :
        /\ ~starts[i].existed
        /\ starts[i].resp = "notfound"
        /\ simulators[starts[i].site] = NoTimer

\* C5: a stop request for a site with no registry entry is answered NotRunning
\* and changes neither the registry nor any timer; so is a stop request that
\* follows a successful stop of the site with no successful start in between.
C5_StopNotRunning ==
    [][StopAnswered =>
         LET id == lastStop'.site
         IN /\ (id \notin SiteIds \/ simulators[id] = NoTimer) =>
                  (lastStop'.resp = "notrunning" /\ UNCHANGED regVars)
            /\ (id \in SiteIds /\ lastCtl[id] = "stopped") =>
                  lastStop'.resp = "notrunning"]_vars

\* C5 witness: the latest stop was answered NotRunning and the latest
\* successful control operation on its site was a stop.
C5_Witness ==
    /\ lastStop.resp = "notrunning"
    /\ lastStop.site \in SiteIds
    /\ lastCtl[lastStop.site] = "stopped"
    /\ \E t \in 1..Len(timers) : timers[t].site = lastStop.site /\ ~timers[t].live

\* C6: a successful stop cancels the timer recorded for the site and removes
\* the entry, and no tick of the site begins while the latest successful
\* control operation on the site is a stop.
C6_Claim ==
    [][ /\ (StopAnswered /\ lastStop'.resp = "stopped") =>
              /\ ~timers'[simulators[lastStop'.site]].live
              /\ simulators'[lastStop'.site] = NoTimer
        /\ TickBegins => lastCtl[ticks'[Len(ticks')].site] # "stopped" ]_vars

\* C7: once shutdown() has run the registry is empty and no tick begins.
C7_Claim ==
    [][shuttingDown' => (simulators' = EmptyRegistry /\ ~TickBegins)]_vars

\* C8: the shutdown sweep runs at most once, and a termination signal that is
\* not the first one cancels nothing, closes nothing and changes no state.
C8_Claim ==
    [][ /\ sweeps' <= 1
        /\ (SignalDelivered /\ Len(signals) >= 1) =>
              UNCHANGED <<regVars, shuttingDown, listening, wssOpen, exited,
                          sweeps>> ]_vars

\* C9: a step in which a tick fails leaves every timer and the registry as
\* they were.
C9_TickFailureKeepsTimer ==
    [][\A k \in 1..Len(ticks) :
         (ticks[k].pc # "failed" /\ ticks'[k].pc = "failed") =>
            UNCHANGED regVars]_vars

\* C9 witness: a tick has failed and its site is still registered with the
\* live timer that fired it.
C9_Witness ==
    \E k \in 1..Len(ticks) :
        /\ ticks[k].pc = "failed"
        /\ simulators[ticks[k].site] = ticks[k].timer
        /\ timers[ticks[k].timer].live

\* the messages of site s among those sent to subscriber c
SiteMessages(c, s) ==
    SelectSeq(delivered[c], LAMBDA m : m.site = s)

\* the weather rows, and the telemetry rows, of site s
SiteWeather(s) ==
    SelectSeq(weather, LAMBDA r : r.site = s)
SiteTelemetry(s) ==
    SelectSeq(telemetry, LAMBDA r : devices[r.dev] = s)

\* one start request for site 1 has succeeded, subscriber 1 is ready, no tick
\* has failed, and every tick that began has ended
LiveRun ==
    /\ Len(starts) = 1 /\ starts[1].resp = "started"
    /\ clientState[1] = "open"
    /\ ~tickFailed[1]
    /\ \A k \in 1..Len(ticks) : ticks[k].pc = "done"

\* n ticks have left n weather rows, n telemetry rows and n messages with
\* strictly increasing timestamps
LiveRunResult ==
    /\ Len(SiteWeather(1)) = Len(ticks)
    /\ Len(SiteTelemetry(1)) = Len(ticks)
    /\ Len(SiteMessages(1, 1)) = Len(ticks)
    /\ \A a, b \in 1..Len(SiteMessages(1, 1)) :
          a < b => SiteMessages(1, 1)[a].ts < SiteMessages(1, 1)[b].ts

\* C10, as claimed: after n ticks without failure, whatever the latencies.
C10_Claim ==
    LiveRun => LiveRunResult

\* C10, amended: the same when every tick ended less than intervalMs after it
\* began.
C10_LiveRunInOrder ==
    (LiveRun /\ ~tickLate[1]) => LiveRunResult

\* C10 witness: two ticks have run to their end in time, without failure.
C10_Witness ==
    /\ LiveRun /\ ~tickLate[1]
    /\ Len(ticks) >= 2
    /\ Len(SiteMessages(1, 1)) >= 2

\* C11: every power the sample generator produces, as published and as
\* stored, lies between 0 and the capacity of the site.
C11_Claim ==
    sample.made =>
        /\ 0 <= sample.physics.powerKw
        /\ sample.physics.powerKw <= CapKw(sample.cap)
        /\ 0 <= sample.value
        /\ sample.value <= CapKw(sample.cap)

\* a seed request has been answered {created: n}
SeedCreated(j) ==
    seeds[j].pc = "done" /\ seeds[j].resp = "created"

\* C12: a seed request for an existing site that meets no persistence failure
\* writes exactly `points` weather rows and `points` telemetry rows and answers
\* created = points; the i-th timestamp is the millisecond nearest to the
\* start of the day plus i * 24 / points hours, the same in both rows, so the
\* timestamps increase strictly and their gaps differ by at most the rounding.
C12_SeedWritesPoints ==
    \A j \in 1..Len(seeds) :
        SeedCreated(j) =>
            LET n == seeds[j].points
                off(i) == seeds[j].tts[i + 1] - seeds[j].base
            IN /\ seeds[j].count = n
               /\ Len(seeds[j].wts) = n
               /\ Len(seeds[j].tts) = n
               /\ seeds[j].wts = seeds[j].tts
               /\ \A i \in 0..(n - 1) :
                     /\ 2 * (n * off(i) - i * MsPerDay) <= n
                     /\ 2 * (i * MsPerDay - n * off(i)) <= n
               /\ \A i \in 0..(n - 2) : off(i) < off(i + 1)
               /\ \A i, k \in 0..(n - 2) :
                     (off(i + 1) - off(i)) - (off(k + 1) - off(k)) <= 1

\* C12 witness: a seed of 24 points has written 00:00, 01:00, ..., 23:00.
C12_Witness ==
    \E j \in 1..Len(seeds) :
        /\ SeedCreated(j)
        /\ seeds[j].points = DefaultPoints
        /\ seeds[j].count = DefaultPoints
        /\ \A i \in 0..(DefaultPoints - 1) :
              seeds[j].tts[i + 1] = seeds[j].base + i * MsPerHour

\* C13: a seed request that ends because a write failed reports the number of
\* samples it had committed.
C13_Claim ==
    \A j \in 1..Len(seeds) :
        (seeds[j].pc = "done" /\ seeds[j].failedAt \in {"weather", "telemetry"})
            => seeds[j].count = seeds[j].created

\* C14: no step of a seed request changes the registry, a timer, the running
\* state of a site, or what any subscriber was sent.
C14_SeedTouchesNoRegistry ==
    [][seeds' # seeds => UNCHANGED <<regVars, lastCtl, delivered>>]_vars

\* C14 witness: a seed request has written its samples for a site whose
\* simulation is running, with a ready subscriber that was sent nothing.
C14_Witness ==
    \E j \in 1..Len(seeds) :
        /\ SeedCreated(j)
        /\ seeds[j].points > 0
        /\ simulators[seeds[j].site] # NoTimer
        /\ timers[simulators[seeds[j].site]].live
        /\ \E c \in Clients : clientState[c] = "open" /\ delivered[c] = <<>>

\* C15: a seed request whose site lookup finds no site is answered
\* SiteNotFound in that step, which writes nothing; the request has then
\* created no device and inserted no weather or telemetry row.
C15_SeedNotFoundWritesNothing ==
    [][\A j \in 1..Len(seeds) :
         ( /\ seeds[j].pc = "findSite" /\ seeds'[j].pc # "findSite"
           /\ seeds'[j].failedAt = "none"
           /\ seeds[j].site \notin sites ) =>
            /\ seeds'[j].pc = "done"
            /\ seeds'[j].resp = "notfound"
            /\ UNCHANGED dbVars
            /\ ~seeds'[j].madeDev
            /\ seeds'[j].wts = <<>> /\ seeds'[j].tts = <<>>]_vars

\* C15 witness: a seed request for a missing site was answered SiteNotFound
\* and storage holds no device and no row.
C15_Witness ==
    \E j \in 1..Len(seeds) :
        /\ seeds[j].resp = "notfound"
        /\ seeds[j].site \notin sites
        /\ devices = <<>> /\ weather = <<>> /\ telemetry = <<>>

\* C20: once a clear request of a quiet site has been answered {cleared}, with
\* nothing begun since it arrived, storage holds no weather row of the site
\* and no telemetry row of a simulated device of the site.
C20_Claim ==
    \A c \in 1..Len(clears) :
        ( /\ clears[c].resp = "cleared"
          /\ clears[c].quiet
          /\ Len(starts) = clears[c].nStarts
          /\ Len(ticks) = clears[c].nTicks
          /\ Len(seeds) = clears[c].nSeeds ) =>
            /\ \A r \in 1..Len(weather) : weather[r].site # clears[c].site
            /\ \A r \in 1..Len(telemetry) :
                  devices[telemetry[r].dev] # clears[c].site

\* a tick publishes in this step: its telemetry insert has answered
Publishes(k) ==
    /\ k \in 1..Len(ticks)
    /\ ticks[k].pc = "telemetry"
    /\ Len(telemetry') = Len(telemetry) + 1

\* C16: when a tick publishes, send is called once for every subscriber that
\* is ready (so a ready subscriber goes without the message only if its own
\* send threw, and then no other does) and for no subscriber that is not;
\* nothing is sent to a subscriber in any other step.
C16_Claim ==
    [][ /\ \A k \in 1..Len(ticks) :
             Publishes(k) =>
                LET msg == [site |-> ticks[k].site, ts |-> ticks[k].now]
                IN \A c \in Clients :
                      /\ clientState[c] # "open" => delivered'[c] = delivered[c]
                      /\ delivered'[c] \in {delivered[c], Append(delivered[c], msg)}
                      /\ (clientState[c] = "open" /\ delivered'[c] = delivered[c]) =>
                            \A d \in Clients \ {c} :
                                clientState[d] = "open" =>
                                    delivered'[d] = Append(delivered[d], msg)
        /\ delivered' # delivered => \E k \in 1..Len(ticks) : Publishes(k) ]_vars

\* C17: when a tick publishes and the send to one ready subscriber throws,
\* every other ready subscriber is sent the message (so at most one ready
\* subscriber goes without it), and the telemetry row of the tick stays.
C17_Claim ==
    [][\A k \in 1..Len(ticks) :
         Publishes(k) =>
            /\ Cardinality({c \in Clients : /\ clientState[c] = "open"
                                            /\ delivered'[c] = delivered[c]}) <= 1
            /\ telemetry'[Len(telemetry')].ts = ticks[k].now]_vars

\* C18: the status request of the dashboard is answered running = true when
\* the registry holds a handle for its site and running = false otherwise.
C18_Claim ==
    [][(dash.mount = "sent" /\ dash'.mount = "answered" /\ listening) =>
          dash'.statusResp =
              IF simulators[SITE_ID] # NoTimer THEN "running" ELSE "idle"]_vars

\* C19: when handleStopSim ends after a NotRunning answer isSimulating is
\* false and isLoading is false, as when it ends after a successful stop.
C19_StopNotRunningIsStopped ==
    [][(dash.op = "stopAnswered" /\ dash'.op = "idle"
          /\ dash.resp \in {"stopped", "notrunning"}) =>
             (~dash'.isSimulating /\ ~dash'.isLoading)]_vars

\* C19 witness: the dashboard showed a running simulation, its stop request
\* was answered NotRunning, and it now shows the simulation stopped.
C19_Witness ==
    /\ dash.done = <<"stop", "notrunning", TRUE>>
    /\ dash.op = "idle"
    /\ ~dash.isSimulating /\ ~dash.isLoading

\* C21: irradianceAtHour with its defaults is 0 for every hour before 6 or after
\* 18, is never negative, never exceeds gMax = 900, and equals gMax at noon.
C21_IrradianceShape ==
    sample.made =>
        LET g == sample.physics.irradiance
        IN /\ (sample.ts < Sunrise * MsPerHour \/ sample.ts > Sunset * MsPerHour) => g = 0
           /\ g >= 0
           /\ g <= GMax * 1000
           /\ sample.ts = 12 * MsPerHour => g = GMax * 1000

\* a noon sample has the peak irradiance
C21_Witness ==
    /\ sample.made
    /\ sample.ts = 12 * MsPerHour
    /\ sample.physics.irradiance = GMax * 1000

\* C22: for a fixed capacity >= 0 and module temperature, computeACPowerKw does
\* not decrease when the irradiance grows, never exceeds the capacity and is
\* never negative.
C22_PowerMonotoneBounded ==
    "ac" \in DOMAIN sample =>
        /\ sample.ac.lowerKw <= sample.ac.kw
        /\ sample.ac.kw <= sample.ac.capacityKw
        /\ sample.ac.kw >= 0

\* the power grows with the irradiance up to the capacity, where it is clipped
C22_Witness ==
    /\ "ac" \in DOMAIN sample
    /\ sample.ac.capacityKw > 0
    /\ sample.ac.lower < sample.ac.irradiance
    /\ 0 < sample.ac.lowerKw
    /\ sample.ac.lowerKw < sample.ac.kw
    /\ sample.ac.kw = sample.ac.capacityKw

\* the sample of a 5.0 kW site at 12:00, without noise
NoonSample ==
    /\ sample.made
    /\ sample.cap = 500000
    /\ sample.ts = 12 * MsPerHour
    /\ sample.rnd = 0

\* C23: for a 5.0 kW site at 12:00 the irradiance is 900 and the AC power before
\* noise is strictly above 4.0 kW and strictly below 5.0 kW.
C23_Claim ==
    NoonSample =>
        /\ sample.physics.irradiance = 900000
        /\ sample.physics.powerKw > 400000
        /\ sample.physics.powerKw < 500000

\* C23, amended: for a 5.0 kW site at 12:00 the irradiance is 900 and the AC
\* power before noise is strictly above 3.5 kW and strictly below 5.0 kW.
C23_NoonPower ==
    NoonSample =>
        /\ sample.physics.irradiance = 900000
        /\ sample.physics.powerKw > 350000
        /\ sample.physics.powerKw < 500000

\* the noon sample of the 5.0 kW site: about 3.63 kW at a module temperature of
\* about 58 degrees
C23_Witness ==
    /\ NoonSample
    /\ sample.physics.moduleTempC > 58000
    /\ sample.physics.powerKw > 360000
    /\ sample.physics.powerKw < 370000

\* the control requests for site 1 received so far: the start requests by their
\* index, and the stop request (0) once it is answered
AdmitRequests ==
    (1..Len(starts)) \cup (IF lastStop.resp = "none" THEN {} ELSE {0})

\* the response request r was given
AdmitResponse(r) ==
    IF r = 0 THEN lastStop.resp ELSE starts[r].resp

\* the response of request r when its route runs alone, from a site that is
\* running or not
SeqResponse(r, running) ==
    IF r = 0 THEN (IF running THEN "stopped" ELSE "notrunning")
    ELSE IF running THEN "already"
    ELSE IF 1 \in sites THEN "started" ELSE "notfound"

\* whether the site runs after request r ran alone
SeqRunning(r, running) ==
    IF r = 0 THEN FALSE ELSE running \/ 1 \in sites

\* running the requests one at a time in this order, from position k, gives
\* the responses observed and ends in the registry and timers observed
RECURSIVE SeqAgrees(_, _, _)
SeqAgrees(order, k, running) ==
    IF k > Len(order)
    THEN /\ running <=> simulators[1] # NoTimer
         /\ Cardinality({t \in LiveTimers : timers[t].site = 1})
               = IF running THEN 1 ELSE 0
    ELSE /\ SeqResponse(order[k], running) = AdmitResponse(order[k])
         /\ SeqAgrees(order, k + 1, SeqRunning(order[k], running))

\* C24: admission is atomic per site: once every start and stop request for
\* the site is answered, the responses and the final registry and timers are
\* those of the same requests run one at a time in some order.
C24_Claim ==
    (\A i \in 1..Len(starts) : starts[i].pc = "done") =>
        \E order \in [1..Cardinality(AdmitRequests) -> AdmitRequests] :
            /\ \A a, b \in DOMAIN order : order[a] = order[b] => a = b
            /\ SeqAgrees(order, 1, FALSE)

\* the lifecycle state of site s: Running when the registry holds an entry
Running(s) ==
    simulators[s] # NoTimer

\* the steps that may change the lifecycle state of site s
StartSucceeds(s) ==
    \E i \in 1..Len(starts) :
        starts[i].site = s /\ starts[i].pc = "lookup" /\ starts'[i].resp = "started"
StopSucceeds(s) ==
    StopAnswered /\ lastStop'.site = s /\ lastStop'.resp = "stopped"
ShutdownRuns ==
    sweeps' = sweeps + 1

\* C25: a site is Stopped or Running. It goes from Stopped to Running only by
\* a start that succeeds and from Running to Stopped only by a stop that
\* succeeds or by shutdown; steps of ticks and of the seed, clear and telemetry
\* routes never change it; and a start for a Stopped site is never
\* rejected as already running and succeeds when its lookup finds the site.
C25_Lifecycle ==
    [][\A s \in SiteIds :
        /\ (~Running(s) /\ Running(s)') => StartSucceeds(s)
        /\ (Running(s) /\ ~Running(s)') => (StopSucceeds(s) \/ ShutdownRuns)
        /\ (ticks' # ticks \/ seeds' # seeds \/ clears' # clears \/ reads' # reads)
              => (Running(s)' <=> Running(s))
        /\ (StartArrives /\ starts'[Len(starts')].site = s /\ ~Running(s))
              => starts'[Len(starts')].resp # "already"
        /\ \A i \in 1..Len(starts) :
              (starts[i].site = s /\ starts[i].pc = "lookup"
                 /\ starts'[i].pc = "done" /\ s \in sites)
              => starts'[i].resp = "started"]_vars

\* site 1 was started, stopped and started again, and a tick and a clear
\* request ran to their end
C25_Witness ==
    /\ Running(1)
    /\ lastStop.site = 1 /\ lastStop.resp = "stopped"
    /\ \E t \in 1..Len(timers) : timers[t].site = 1 /\ ~timers[t].live
    /\ timers[simulators[1]].live
    /\ \E k \in 1..Len(ticks) : ticks[k].pc = "done"
    /\ \E c \in 1..Len(clears) : clears[c].resp = "cleared"

\* C26: a site that was started and is neither stopped nor shut down keeps
\* beginning ticks, whether or not earlier ticks failed: whenever n ticks have
\* begun and the next firing is within the horizon of the run, a further tick
\* begins (n below the number of ticks of a run).
C26_TicksKeepBeginning ==
    \A n \in 0..(MaxTicks - 1) :
        (/\ Len(starts) = 1 /\ starts[1].resp = "started"
         /\ Len(ticks) = n
         /\ clock + starts[1].interval <= MaxClock)
        ~> (Len(ticks) > n)

\* a tick failed and a later tick began
C26_Witness ==
    /\ Len(starts) = 1 /\ starts[1].resp = "started"
    /\ Len(ticks) >= 2
    /\ ticks[1].pc = "failed"
    /\ timers[1].live

\* tick k is suspended at a persistence call
InFlight(k) ==
    ticks[k].pc \in AwaitPcs

\* C27: the ticks of one site are not serialised: while a tick of a timer is
\* in flight the timer can fire again, so that the next tick begins before the
\* previous one has ended (within the ticks and the horizon of a run).
C27_TicksNotSerialised ==
    \A t \in LiveTimers :
        (/\ \E k \in 1..Len(ticks) : ticks[k].timer = t /\ InFlight(k)
         /\ Len(ticks) < MaxTicks
         /\ timers[t].due <= MaxClock)
        => ENABLED TickBegin(t)

\* two ticks of one timer are suspended at their telemetry writes at the same
\* time, the weather rows of both already written
C27_Witness ==
    \E j, k \in 1..Len(ticks) :
        /\ j < k
        /\ ticks[j].timer = ticks[k].timer
        /\ ticks[j].pc = "telemetry" /\ ticks[k].pc = "telemetry"
        /\ Len(weather) = 2

\* the step is a start or stop request for site a, or a step of a tick of a
ActsOn(a) ==
    \/ StartArrives /\ starts'[Len(starts')].site = a
    \/ \E i \in 1..Len(starts) :
          starts[i].site = a /\ starts[i].pc = "lookup" /\ starts'[i].pc = "done"
    \/ StopAnswered /\ lastStop'.site = a
    \/ TickBegins /\ ticks'[Len(ticks')].site = a
    \/ \E k \in 1..Len(ticks) : ticks[k].site = a /\ ticks'[k] # ticks[k]

\* the registry entry and the timers of every site other than a are unchanged
OthersUnchanged(a) ==
    \A b \in SiteIds \ {a} :
        /\ simulators'[b] = simulators[b]
        /\ \A t \in 1..Len(timers) :
              timers[t].site = b => (t <= Len(timers') /\ timers'[t] = timers[t])
        /\ \A t \in 1..Len(timers') : timers'[t].site = b => t <= Len(timers)

\* C28: a start or stop request for site A and every step of a tick of A
\* leave the registry entry and the timers of every other site unchanged.
C28_OtherSitesUntouched ==
    [][\A a \in SiteIds : ActsOn(a) => OthersUnchanged(a)]_vars

\* a stop of one site has succeeded after a tick of it began, while the other
\* site is running on a live timer
C28_Witness ==
    \E a, b \in SiteIds :
        /\ a # b
        /\ lastStop.site = a /\ lastStop.resp = "stopped"
        /\ \E k \in 1..Len(ticks) : ticks[k].site = a
        /\ simulators[b] # NoTimer
        /\ timers[simulators[b]].site = b
        /\ timers[simulators[b]].live

\* C29: while a tick of site A is suspended at a persistence call, the ticks
\* of every other site B proceed: B's timer can fire and each of B's ticks can
\* take its next step (lookups, both writes, publication) without waiting.
C29_SitesDoNotWait ==
    \A j \in 1..Len(ticks) : InFlight(j) =>
        /\ \A t \in LiveTimers :
              (timers[t].site # ticks[j].site /\ Len(ticks) < MaxTicks
                 /\ timers[t].due <= MaxClock)
              => ENABLED TickBegin(t)
        /\ \A k \in 1..Len(ticks) : ticks[k].site # ticks[j].site =>
              /\ ticks[k].pc = "findSite" => ENABLED TickSiteLookup(k)
              /\ ticks[k].pc = "findDevice" => ENABLED TickDeviceLookup(k)
              /\ ticks[k].pc = "createDevice" => ENABLED TickDeviceCreate(k)
              /\ ticks[k].pc = "weather" => ENABLED TickWeather(k)
              /\ ticks[k].pc = "telemetry" => ENABLED TickTelemetry(k, 0)

\* a tick of one site is still suspended at its first persistence call while a
\* tick of another site that began later has written both records and
\* published its message
C29_Witness ==
    \E j, k \in 1..Len(ticks) :
        /\ j < k
        /\ ticks[j].site # ticks[k].site
        /\ ticks[j].pc = "findSite"
        /\ ticks[k].pc = "done"
        /\ \E r \in 1..Len(weather) : weather[r].site = ticks[k].site
        /\ Len(telemetry) = 1
        /\ \E m \in 1..Len(delivered[1]) : delivered[1][m].site = ticks[k].site

\* C30: cancellation is not preemptive: a tick whose timer was cleared by stop
\* or by shutdown while it was in flight still performs its remaining writes,
\* so a tick that has written its weather record can always go on to write
\* its telemetry record.
C30_Claim ==
    \A k \in 1..Len(ticks) :
        (ticks[k].pc = "telemetry" /\ ~timers[ticks[k].timer].live)
        => ENABLED TickTelemetry(k, 0)

\* the number of rows of a table with timestamp ts
RowsAt(rows, ts) ==
    Cardinality({r \in 1..Len(rows) : rows[r].ts = ts})

\* C31: the two records of a sample are persisted as one unit: once every tick
\* has ended, with success or failure, each sample in storage has both its
\* weather record and its telemetry record.
C31_Claim ==
    (\A k \in 1..Len(ticks) : ~InFlight(k)) =>
        \A r \in 1..Len(weather) :
            RowsAt(telemetry, weather[r].ts) = RowsAt(weather, weather[r].ts)

\* C32: a live tick publishes only once both records of its sample are
\* persisted: a message reaches a subscriber only in the step in which the
\* tick's telemetry record is written, its weather record being in storage, and
\* a tick that fails before that write publishes nothing.
C32_PublishAfterPersist ==
    [][/\ \A c \in Clients : delivered'[c] # delivered[c] =>
            \E k \in 1..Len(ticks) :
                LET msg == [site |-> ticks[k].site, ts |-> ticks[k].now]
                IN /\ ticks[k].pc = "telemetry"
                   /\ ticks'[k].pc \in {"done", "failed"}
                   /\ delivered'[c] = Append(delivered[c], msg)
                   /\ telemetry' = Append(telemetry,
                                          [dev |-> ticks[k].dev, ts |-> ticks[k].now])
                   /\ \E r \in 1..Len(weather) : weather[r] = msg
       /\ \A k \in 1..Len(ticks) :
            (InFlight(k) /\ ticks'[k].pc = "failed" /\ telemetry' = telemetry)
            => delivered' = delivered]_vars

\* a subscriber holds the message of a tick whose two records are in storage,
\* and another tick has failed with nothing sent for it
C32_Witness ==
    /\ Len(ticks) = 2
    /\ \E k \in 1..2 : ticks[k].pc = "failed"
    /\ \E k \in 1..2 : ticks[k].pc = "done"
    /\ Len(weather) = 2 /\ Len(telemetry) = 1
    /\ \E c \in Clients :
          /\ Len(delivered[c]) = 1
          /\ delivered[c][1].ts = telemetry[1].ts
          /\ \E r \in 1..2 : weather[r] = delivered[c][1]

\* C33: a tick of a site whose row no longer exists fails at its site lookup:
\* it ends as failed, creates no device, writes no weather and no telemetry
\* record and sends no message.
C33_MissingSiteTickFails ==
    [][\A k \in 1..Len(ticks) :
        (ticks[k].pc = "findSite" /\ ticks[k].site \notin sites /\ ticks'[k] # ticks[k])
        => /\ ticks'[k].pc = "failed"
           /\ tickFailed'[ticks[k].site]
           /\ devices' = devices
           /\ weather' = weather
           /\ telemetry' = telemetry
           /\ delivered' = delivered]_vars

\* the site of a running simulation was deleted and a tick of it has failed,
\* with nothing stored and nothing sent to the ready subscriber
C33_Witness ==
    /\ Len(starts) = 1 /\ starts[1].resp = "started"
    /\ 1 \notin sites
    /\ timers[1].live
    /\ \E k \in 1..Len(ticks) : ticks[k].pc = "failed"
    /\ \A k \in 1..Len(ticks) : ~InFlight(k)
    /\ devices = <<>> /\ weather = <<>> /\ telemetry = <<>>
    /\ clientState[1] = "open" /\ delivered[1] = <<>>

\* C34: the values a live tick publishes are the rounded values persisted for
\* the same sample: the power to 4 decimal places, the irradiance and the
\* module temperature to 2, with the same timestamp.
C34_Claim ==
    sample.made =>
        /\ sample.payload.timestamp = sample.stored.timestamp
        /\ sample.payload.powerKw = sample.stored.value
        /\ sample.payload.irradiance = sample.stored.irradiance_wm2
        /\ sample.payload.temp = sample.stored.module_temp_c

\* C35: seed timestamps depend on the calendar day and the index only: two
\* seed runs with the same points on the same day have written the same
\* timestamps, index by index, whenever they began and however long their
\* writes took.
C35_SeedTimestampsRepeat ==
    \A a, b \in 1..Len(seeds) :
        seeds[a].points = seeds[b].points =>
            /\ \A n \in 1..Min(Len(seeds[a].wts), Len(seeds[b].wts)) :
                  seeds[a].wts[n] = seeds[b].wts[n]
            /\ \A n \in 1..Min(Len(seeds[a].tts), Len(seeds[b].tts)) :
                  seeds[a].tts[n] = seeds[b].tts[n]

\* two seed runs of two points that read the clock at different instants have
\* both ended, with the same timestamps
C35_Witness ==
    /\ Len(seeds) >= 2
    /\ seeds[1].points = 2 /\ seeds[2].points = 2
    /\ seeds[1].resp = "created" /\ seeds[2].resp = "created"
    /\ seeds[1].now # seeds[2].now
    /\ Len(seeds[1].tts) = 2
    /\ seeds[1].tts = seeds[2].tts

\* C36: in every reachable state at most one simulated device sim-site-{s}
\* exists for each site s.
C36_Claim ==
    \A s \in SiteIds :
        Cardinality({d \in 1..Len(devices) : devices[d] = s}) <= 1

\* C37: one call of fetchHistory(true) sends at most one seed request and
\* calls itself at most once, the inner call with seedIfEmpty = false, so at
\* most two telemetry requests are sent.
C37_FetchHistoryBounded ==
    /\ dash.fh.posts <= 1
    /\ dash.fh.depth <= 1
    /\ dash.fh.gets <= 2
    /\ dash.fh.depth = 1 => ~dash.fh.seedIfEmpty
    /\ dash.fh.depth = 1 => dash.fh.posts = 1

\* the call has returned after a seed request that failed and a second
\* history that is still empty
C37_Witness ==
    /\ dash.fh.pc = "done"
    /\ dash.fh.posts = 1
    /\ dash.fh.depth = 1
    /\ dash.fh.gets = 2
    /\ dash.fh.shown = 0
    /\ \E j \in 1..Len(seeds) : seeds[j].points = DefaultPoints /\ seeds[j].resp = "error"

\* C38: whenever the dashboard is mounted with no request of its handlers in
\* flight, its isSimulating flag (which enables its Stop button) is true
\* exactly when the registry holds a handle for its site.
C38_Claim ==
    (dash.mount = "done" /\ dash.op = "idle" /\ ~dash.isLoading) =>
        (dash.isSimulating <=> simulators[SITE_ID] # NoTimer)

====
